---- MODULE Spec2Model ----
(***************************************************************************)
(* Model of neutralNEMO: the equation-of-state kernels and factory of      *)
(* eos.py and the grid builder of grid.py.                                 *)
(*                                                                         *)
(* Floating-point numbers are modelled as signed decimal fixed-point       *)
(* numbers with 16 fractional digits (four limbs of four digits), every    *)
(* product, quotient and square root being rounded towards zero to that    *)
(* precision, as a float operation is rounded to its mantissa.  A number   *)
(* is a record [neg, mag] where mag is the sequence of base-10000 limbs of *)
(* |x| * 10^16, least significant first: six limbs, the last unreduced.    *)
(***************************************************************************)
EXTENDS Integers, Sequences, FiniteSets, TLC

Base == 10000

\* ---------------------------------------------------------------------
\* magnitudes: |x| * 10^16 as six base-10000 limbs, least significant
\* first; limbs 1..4 are the fraction, the last limb is not reduced
\* ---------------------------------------------------------------------
MagZero == <<0, 0, 0, 0, 0, 0>>

\* the limbs v with every limb but the last reduced, the carries going up
\* (the final tuple is built from the lowest limb up)
Norm6(v) ==
    LET t1 == v[1]
        t2 == v[2] + (t1 \div Base)
        t3 == v[3] + (t2 \div Base)
        t4 == v[4] + (t3 \div Base)
        t5 == v[5] + (t4 \div Base)
        t6 == v[6] + (t5 \div Base)
    IN  <<t1 % Base, t2 % Base, t3 % Base, t4 % Base, t5 % Base, t6>>

Norm11(v) ==
    LET t1  == v[1]
        t2  == v[2] + (t1 \div Base)
        t3  == v[3] + (t2 \div Base)
        t4  == v[4] + (t3 \div Base)
        t5  == v[5] + (t4 \div Base)
        t6  == v[6] + (t5 \div Base)
        t7  == v[7] + (t6 \div Base)
        t8  == v[8] + (t7 \div Base)
        t9  == v[9] + (t8 \div Base)
        t10 == v[10] + (t9 \div Base)
        t11 == v[11] + (t10 \div Base)
    IN  <<t1 % Base, t2 % Base, t3 % Base, t4 % Base, t5 % Base, t6 % Base,
          t7 % Base, t8 % Base, t9 % Base, t10 % Base, t11>>

MagAdd(a, b) ==
    Norm6(<<a[1] + b[1], a[2] + b[2], a[3] + b[3],
            a[4] + b[4], a[5] + b[5], a[6] + b[6]>>)

\* a - b for a >= b
MagSub(a, b) ==
    Norm6(<<a[1] - b[1], a[2] - b[2], a[3] - b[3],
            a[4] - b[4], a[5] - b[5], a[6] - b[6]>>)

\* -1, 0, 1 as a < b, a = b, a > b
MagCmp(a, b) ==
    IF a[6] # b[6] THEN (IF a[6] < b[6] THEN -1 ELSE 1)
    ELSE IF a[5] # b[5] THEN (IF a[5] < b[5] THEN -1 ELSE 1)
    ELSE IF a[4] # b[4] THEN (IF a[4] < b[4] THEN -1 ELSE 1)
    ELSE IF a[3] # b[3] THEN (IF a[3] < b[3] THEN -1 ELSE 1)
    ELSE IF a[2] # b[2] THEN (IF a[2] < b[2] THEN -1 ELSE 1)
    ELSE IF a[1] # b[1] THEN (IF a[1] < b[1] THEN -1 ELSE 1)
    ELSE 0

\* the exact product a * b as eleven limbs
MagMulFull(a, b) ==
    Norm11(
     <<a[1]*b[1],
       a[1]*b[2] + a[2]*b[1],
       a[1]*b[3] + a[2]*b[2] + a[3]*b[1],
       a[1]*b[4] + a[2]*b[3] + a[3]*b[2] + a[4]*b[1],
       a[1]*b[5] + a[2]*b[4] + a[3]*b[3] + a[4]*b[2] + a[5]*b[1],
       a[1]*b[6] + a[2]*b[5] + a[3]*b[4] + a[4]*b[3] + a[5]*b[2] + a[6]*b[1],
       a[2]*b[6] + a[3]*b[5] + a[4]*b[4] + a[5]*b[3] + a[6]*b[2],
       a[3]*b[6] + a[4]*b[5] + a[5]*b[4] + a[6]*b[3],
       a[4]*b[6] + a[5]*b[5] + a[6]*b[4],
       a[5]*b[6] + a[6]*b[5],
       a[6]*b[6]>>)

\* the eleven limbs f without the lowest four: f / 10^16 rounded down
Trunc(f) == <<f[5], f[6], f[7], f[8], f[9], f[10] + Base * f[11]>>

\* a * b / 10^16 rounded towards zero
MagMul(a, b) == Trunc(MagMulFull(a, b))

\* a * k for a limb k
MagMulSmall(a, k) ==
    Norm6(<<a[1] * k, a[2] * k, a[3] * k, a[4] * k, a[5] * k, a[6] * k>>)

\* a * 10000 + d
ShiftIn(a, d) == <<d, a[1], a[2], a[3], a[4], a[5] + Base * a[6]>>

\* is d a limb with b*d <= r ?
QuotFits(r, b, d) == d < Base /\ MagCmp(MagMulSmall(b, d), r) <= 0

\* the largest j in 0..3 with QuotFits(r, b, acc + w*j), by bisection
QuotCount4(r, b, acc, w) ==
    IF QuotFits(r, b, acc + 2*w)
    THEN (IF QuotFits(r, b, acc + 3*w) THEN 3 ELSE 2)
    ELSE (IF QuotFits(r, b, acc + w) THEN 1 ELSE 0)

\* acc with the base-4 digit of weight w set to the largest that fits
QuotSearch4(r, b, acc, w) == acc + w * QuotCount4(r, b, acc, w)

\* the largest limb d with b*d <= r, for r < b*10000
QuotDigit(r, b) ==
    QuotSearch4(r, b, QuotSearch4(r, b, QuotSearch4(r, b, QuotSearch4(r, b,
    QuotSearch4(r, b, QuotSearch4(r, b, QuotSearch4(r, b,
        0, 4096), 1024), 256), 64), 16), 4), 1)

\* the quotient limb d appended and the remainder kept
DivPut(st, b, r1, d) ==
    [st EXCEPT !.q = Append(@, d), !.r = MagSub(r1, MagMulSmall(b, d))]

\* the quotient limb of the remainder r1 found
DivTake(st, b, r1) == DivPut(st, b, r1, QuotDigit(r1, b))

\* one step of long division: bring down a limb, find the quotient limb
\* and append it, keep the remainder
DivStep(st, b, limb) == DivTake(st, b, ShiftIn(st.r, limb))

\* the ten quotient limbs q, most significant first, as a magnitude
DivResult(q) ==
    <<q[10], q[9], q[8], q[7], q[6],
      q[5] + Base * (q[4] + Base * (q[3] + Base * (q[2] + Base * q[1])))>>

\* a * 10^16 / b rounded towards zero, for b # 0
MagDiv(a, b) ==
    DivResult(
      DivStep(DivStep(DivStep(DivStep(DivStep(DivStep(DivStep(DivStep(
      DivStep(DivStep([r |-> MagZero, q |-> <<>>],
        b, a[6]), b, a[5]), b, a[4]), b, a[3]), b, a[2]), b, a[1]),
        b, 0), b, 0), b, 0), b, 0).q)

\* is f <= a * 10^16, given m, how the limbs of f above the fourth
\* compare to a ?
SquareCmp(m, f) ==
    m < 0 \/ (m = 0 /\ f[1] = 0 /\ f[2] = 0 /\ f[3] = 0 /\ f[4] = 0)

SquareLeq(f, a) == SquareCmp(MagCmp(Trunc(f), a), f)

\* is c*c <= a * 10^16 ?
SquareFits(c, a) == SquareLeq(MagMulFull(c, c), a)

\* is d a limb with which, as limb k of cur, cur*cur <= a * 10^16 ?
RootFits(a, cur, k, d) == d < Base /\ SquareFits([cur EXCEPT ![k] = d], a)

\* the largest j in 0..3 with RootFits(a, cur, k, acc + w*j), by bisection
RootCount4(a, cur, k, acc, w) ==
    IF RootFits(a, cur, k, acc + 2*w)
    THEN (IF RootFits(a, cur, k, acc + 3*w) THEN 3 ELSE 2)
    ELSE (IF RootFits(a, cur, k, acc + w) THEN 1 ELSE 0)

RootSearch4(a, cur, k, acc, w) == acc + w * RootCount4(a, cur, k, acc, w)

\* limb k of the root of a, given the limbs above k in cur
RootDigit(a, cur, k) ==
    RootSearch4(a, cur, k, RootSearch4(a, cur, k, RootSearch4(a, cur, k,
    RootSearch4(a, cur, k, RootSearch4(a, cur, k, RootSearch4(a, cur, k,
    RootSearch4(a, cur, k,
        0, 4096), 1024), 256), 64), 16), 4), 1)

RootStep(a, cur, k) == [cur EXCEPT ![k] = RootDigit(a, cur, k)]

\* sqrt(a * 10^16) rounded down, one limb at a time from the top (the
\* root of a number below 10^8 has five limbs)
MagSqrt(a) ==
    RootStep(a, RootStep(a, RootStep(a, RootStep(a, RootStep(a,
        MagZero, 5), 4), 3), 2), 1)

\* ---------------------------------------------------------------------
\* signed fixed-point numbers: the float arithmetic of eos.py
\* ---------------------------------------------------------------------
Mk(neg, mag) == [neg |-> (neg /\ mag # MagZero), mag |-> mag]

\* the decimal literal (-)ip.f1f2f3f4, each f a group of four digits
Dec(neg, ip, f1, f2, f3, f4) == Mk(neg, <<f4, f3, f2, f1, ip, 0>>)

\* the integer n
Int2F(n) == IF n < 0 THEN Dec(TRUE, -n, 0, 0, 0, 0) ELSE Dec(FALSE, n, 0, 0, 0, 0)

Zero == Mk(FALSE, MagZero)
One  == Int2F(1)
Half == Dec(FALSE, 0, 5000, 0, 0, 0)

IsZero(x) == x.mag = MagZero
Neg(x) == Mk(~x.neg, x.mag)
Abs(x) == Mk(FALSE, x.mag)

Add(x, y) ==
    IF x.neg = y.neg THEN Mk(x.neg, MagAdd(x.mag, y.mag))
    ELSE IF MagCmp(x.mag, y.mag) >= 0 THEN Mk(x.neg, MagSub(x.mag, y.mag))
    ELSE Mk(y.neg, MagSub(y.mag, x.mag))

Sub(x, y) == Add(x, Neg(y))

Mul(x, y) ==
    IF x.neg = y.neg THEN [neg |-> FALSE, mag |-> MagMul(x.mag, y.mag)]
    ELSE Mk(TRUE, MagMul(x.mag, y.mag))

\* x / y for y # 0
Div(x, y) ==
    IF x.neg = y.neg THEN [neg |-> FALSE, mag |-> MagDiv(x.mag, y.mag)]
    ELSE Mk(TRUE, MagDiv(x.mag, y.mag))

\* np.sqrt of x >= 0
Sqrt(x) == Mk(FALSE, MagSqrt(x.mag))

\* -1, 0, 1 as x < y, x = y, x > y
Cmp(x, y) ==
    IF x.neg /\ ~y.neg THEN -1
    ELSE IF ~x.neg /\ y.neg THEN 1
    ELSE IF x.neg THEN MagCmp(y.mag, x.mag)
    ELSE MagCmp(x.mag, y.mag)

Leq(x, y) == Cmp(x, y) <= 0
Lt(x, y)  == Cmp(x, y) < 0
Sign(x) == IF IsZero(x) THEN 0 ELSE IF x.neg THEN -1 ELSE 1

\* infix forms of the float operations
a ++ b == Add(a, b)
a -- b == Sub(a, b)
a ** b == Mul(a, b)
a // b == Div(a, b)

\* ---------------------------------------------------------------------
\* eos.py
\* ---------------------------------------------------------------------
\* results of a call
None == [kind |-> "None"]
ZeroDivisionError == [kind |-> "ZeroDivisionError"]
Value(v) == [kind |-> "value", val |-> v]
Pair(b, a) == [kind |-> "value", beta |-> b, alpha |-> a]

\* non-finite floats; a finite float is a record with a mag field
Inf(neg) == [nonfinite |-> IF neg THEN "-inf" ELSE "inf"]
NaN == [nonfinite |-> "nan"]
IsFinite(x) == "mag" \in DOMAIN x

\* the default keyword arguments rn_a0 .. rn_mu2
DefaultCoef ==
    [rn_a0      |-> Dec(FALSE, 0, 1655, 0, 0, 0),
     rn_b0      |-> Dec(FALSE, 0, 7655, 0, 0, 0),
     rn_nu      |-> Dec(FALSE, 0, 24, 3410, 0, 0),
     rn_lambda1 |-> Dec(FALSE, 0, 595, 2000, 0, 0),
     rn_lambda2 |-> Dec(FALSE, 0, 7, 4914, 0, 0),
     rn_mu1     |-> Dec(FALSE, 0, 1, 4970, 0, 0),
     rn_mu2     |-> Dec(FALSE, 0, 0, 1109, 0, 0)]

rho_0 == Int2F(1026)
T0 == Int2F(10)
S0 == Int2F(35)

\* calc_seos with the thermobaric term taken on T and S, not dT and dS
calc_seos_absolute(S, T, Z, p) ==
    LET
        dT == T -- T0
        dS == S -- S0
        rho ==
            ((rho_0 -- (p.rn_a0 ** (One ++ (Half ** p.rn_lambda1 ** dT)) ** dT)) ++ (p.rn_b0 ** (One -- (Half ** p.rn_lambda2 ** dS)) ** dS)) -- (p.rn_nu ** dT ** dS) -- (((p.rn_a0 ** p.rn_mu1 ** T) ++ (p.rn_b0 ** p.rn_mu2 ** S)) ** Z)
    IN  rho

calc_seos(S, T, Z, p) ==
    LET
        dT == T -- T0
        dS == S -- S0
        rho ==
            ((rho_0 -- (p.rn_a0 ** (One ++ (Half ** p.rn_lambda1 ** dT)) ** dT)) ++ (p.rn_b0 ** (One -- (Half ** p.rn_lambda2 ** dS)) ** dS)) -- (p.rn_nu ** dT ** dS) -- (((p.rn_a0 ** p.rn_mu1 ** dT) ++ (p.rn_b0 ** p.rn_mu2 ** dS)) ** Z)
    IN  rho

\* calc_seos_s_t with the factor 0.5 of the density kept in the cabbeling terms
calc_seos_s_t_half(S, T, Z, p) ==
    LET
        dT == T -- T0
        dS == S -- S0
        beta ==
            (p.rn_b0 ** (One -- (Half ** p.rn_lambda2 ** dS))) -- (p.rn_nu ** dT) -- (p.rn_b0 ** p.rn_mu2 ** Z)
        alpha ==
            (Neg(p.rn_a0) ** (One ++ (Half ** p.rn_lambda1 ** dT))) -- (p.rn_nu ** dS) -- (p.rn_a0 ** p.rn_mu1 ** Z)
    IN  <<beta, alpha>>

calc_seos_s_t(S, T, Z, p) ==
    LET
        dT == T -- T0
        dS == S -- S0
        beta ==
            (p.rn_b0 ** (One -- (p.rn_lambda2 ** dS))) -- (p.rn_nu ** dT) -- (p.rn_b0 ** p.rn_mu2 ** Z)
        alpha ==
            (Neg(p.rn_a0) ** (One ++ (p.rn_lambda1 ** dT))) -- (p.rn_nu ** dS) -- (p.rn_a0 ** p.rn_mu1 ** Z)
    IN  <<beta, alpha>>

\* the constants of the teos10 branch of calc_eos
EosCoef_teos10 ==
    [rdeltaS |-> Dec(FALSE, 32, 0, 0, 0, 0),
     r1_S0 |-> Dec(FALSE, 0, 8750, 0, 0, 0) // Dec(FALSE, 35, 1650, 4000, 0, 0),
     r1_T0 |-> Dec(FALSE, 1, 0, 0, 0, 0) // Dec(FALSE, 40, 0, 0, 0, 0),
     r1_Z0 |-> Dec(FALSE, 0, 1, 0, 0, 0),
     EOS000 |-> Dec(FALSE, 801, 8961, 5746, 0, 0),
     EOS100 |-> Dec(FALSE, 866, 7240, 8165, 0, 0),
     EOS200 |-> Dec(TRUE, 1786, 4682, 6370, 0, 0),
     EOS300 |-> Dec(FALSE, 2037, 5295, 5460, 0, 0),
     EOS400 |-> Dec(TRUE, 1284, 9161, 710, 0, 0),
     EOS500 |-> Dec(FALSE, 432, 2758, 5684, 0, 0),
     EOS600 |-> Dec(TRUE, 60, 5799, 1661, 2000, 0),
     EOS010 |-> Dec(FALSE, 26, 101, 4506, 8000, 0),
     EOS110 |-> Dec(TRUE, 65, 2818, 8526, 5000, 0),
     EOS210 |-> Dec(FALSE, 81, 7704, 2510, 8000, 0),
     EOS310 |-> Dec(TRUE, 56, 8880, 4632, 1000, 0),
     EOS410 |-> Dec(FALSE, 17, 6818, 1411, 4000, 0),
     EOS510 |-> Dec(TRUE, 1, 9193, 5021, 9500, 0),
     EOS020 |-> Dec(TRUE, 37, 741, 7041, 7000, 0),
     EOS120 |-> Dec(FALSE, 61, 5482, 5812, 7000, 0),
     EOS220 |-> Dec(TRUE, 60, 3625, 5150, 1000, 0),
     EOS320 |-> Dec(FALSE, 29, 1300, 2125, 3000, 0),
     EOS420 |-> Dec(TRUE, 5, 4723, 6927, 3900, 0),
     EOS030 |-> Dec(FALSE, 21, 6617, 8952, 9000, 0),
     EOS130 |-> Dec(TRUE, 33, 4491, 846, 9000, 0),
     EOS230 |-> Dec(FALSE, 19, 7170, 7846, 6000, 0),
     EOS330 |-> Dec(TRUE, 3, 1742, 9465, 3200, 0),
     EOS040 |-> Dec(TRUE, 8, 3627, 8854, 6700, 0),
     EOS140 |-> Dec(FALSE, 11, 3115, 3858, 4000, 0),
     EOS240 |-> Dec(TRUE, 5, 3563, 3040, 4500, 0),
     EOS050 |-> Dec(FALSE, 0, 5404, 8723, 7910, 0),
     EOS150 |-> Dec(FALSE, 0, 4816, 9980, 1630, 0),
     EOS060 |-> Dec(TRUE, 0, 1908, 3568, 8880, 0),
     EOS001 |-> Dec(FALSE, 19, 6819, 2520, 9000, 0),
     EOS101 |-> Dec(TRUE, 42, 5499, 9821, 4000, 0),
     EOS201 |-> Dec(FALSE, 50, 7747, 6821, 8000, 0),
     EOS301 |-> Dec(TRUE, 30, 9380, 7633, 4000, 0),
     EOS401 |-> Dec(FALSE, 6, 6051, 7530, 9700, 0),
     EOS011 |-> Dec(TRUE, 13, 3363, 111, 3000, 0),
     EOS111 |-> Dec(TRUE, 4, 4870, 1145, 7500, 0),
     EOS211 |-> Dec(FALSE, 5, 42, 5980, 6100, 0),
     EOS311 |-> Dec(TRUE, 0, 6539, 9043, 6640, 0),
     EOS021 |-> Dec(FALSE, 6, 7080, 4796, 300, 0),
     EOS121 |-> Dec(FALSE, 3, 5063, 812, 7900, 0),
     EOS221 |-> Dec(TRUE, 1, 8795, 3729, 9600, 0),
     EOS031 |-> Dec(TRUE, 2, 4649, 6695, 3400, 0),
     EOS131 |-> Dec(TRUE, 0, 5507, 7101, 2790, 0),
     EOS041 |-> Dec(FALSE, 0, 5592, 7935, 9700, 0),
     EOS002 |-> Dec(FALSE, 2, 660, 9241, 7500, 0),
     EOS102 |-> Dec(TRUE, 4, 9527, 6039, 8900, 0),
     EOS202 |-> Dec(FALSE, 2, 5019, 6332, 4400, 0),
     EOS012 |-> Dec(FALSE, 2, 564, 3114, 9900, 0),
     EOS112 |-> Dec(TRUE, 0, 2131, 1365, 5180, 0),
     EOS022 |-> Dec(TRUE, 1, 2419, 9830, 2600, 0),
     EOS003 |-> Dec(TRUE, 0, 233, 4275, 8797, 0),
     EOS103 |-> Dec(TRUE, 0, 185, 763, 6718, 0),
     EOS013 |-> Dec(FALSE, 0, 3796, 9820, 4550, 0)]

\* the constants of the eos80 branch of calc_eos
EosCoef_eos80 ==
    [rdeltaS |-> Dec(FALSE, 20, 0, 0, 0, 0),
     r1_S0 |-> Dec(FALSE, 1, 0, 0, 0, 0) // Dec(FALSE, 40, 0, 0, 0, 0),
     r1_T0 |-> Dec(FALSE, 1, 0, 0, 0, 0) // Dec(FALSE, 40, 0, 0, 0, 0),
     r1_Z0 |-> Dec(FALSE, 0, 1, 0, 0, 0),
     EOS000 |-> Dec(FALSE, 953, 5689, 1948, 0, 0),
     EOS100 |-> Dec(FALSE, 171, 3649, 9189, 0, 0),
     EOS200 |-> Dec(TRUE, 375, 103, 9454, 0, 0),
     EOS300 |-> Dec(FALSE, 518, 5681, 420, 0, 0),
     EOS400 |-> Dec(TRUE, 372, 6447, 465, 0, 0),
     EOS500 |-> Dec(FALSE, 143, 253, 3998, 0, 0),
     EOS600 |-> Dec(TRUE, 22, 8566, 2116, 2000, 0),
     EOS010 |-> Dec(FALSE, 10, 875, 1865, 1000, 0),
     EOS110 |-> Dec(TRUE, 13, 6477, 4186, 1000, 0),
     EOS210 |-> Dec(FALSE, 8, 8478, 3599, 3300, 0),
     EOS310 |-> Dec(TRUE, 7, 2329, 3883, 7700, 0),
     EOS410 |-> Dec(FALSE, 1, 4774, 4106, 1100, 0),
     EOS510 |-> Dec(FALSE, 0, 2003, 6720, 5530, 0),
     EOS020 |-> Dec(TRUE, 25, 5798, 3059, 9000, 0),
     EOS120 |-> Dec(FALSE, 24, 435, 1232, 7000, 0),
     EOS220 |-> Dec(TRUE, 16, 8075, 399, 0, 0),
     EOS320 |-> Dec(FALSE, 8, 3811, 5770, 8400, 0),
     EOS420 |-> Dec(TRUE, 1, 9771, 601, 9200, 0),
     EOS030 |-> Dec(FALSE, 16, 8464, 5119, 8000, 0),
     EOS130 |-> Dec(TRUE, 21, 4829, 2690, 1000, 0),
     EOS230 |-> Dec(FALSE, 10, 1089, 5405, 4000, 0),
     EOS330 |-> Dec(TRUE, 0, 6267, 5951, 4400, 0),
     EOS040 |-> Dec(TRUE, 8, 812, 3101, 200, 0),
     EOS140 |-> Dec(FALSE, 10, 1023, 7498, 5000, 0),
     EOS240 |-> Dec(TRUE, 4, 8340, 3686, 3100, 0),
     EOS050 |-> Dec(FALSE, 1, 2079, 1678, 300, 0),
     EOS150 |-> Dec(FALSE, 0, 1151, 5380, 9870, 0),
     EOS060 |-> Dec(TRUE, 0, 2452, 288, 8370, 0),
     EOS001 |-> Dec(FALSE, 10, 7486, 106, 8000, 0),
     EOS101 |-> Dec(TRUE, 17, 8170, 4350, 0, 0),
     EOS201 |-> Dec(FALSE, 22, 1813, 6676, 8000, 0),
     EOS301 |-> Dec(TRUE, 16, 7509, 1633, 8000, 0),
     EOS401 |-> Dec(FALSE, 4, 1202, 2304, 300, 0),
     EOS011 |-> Dec(TRUE, 15, 8526, 4458, 7000, 0),
     EOS111 |-> Dec(TRUE, 0, 7663, 9383, 5220, 0),
     EOS211 |-> Dec(FALSE, 4, 1144, 6273, 200, 0),
     EOS311 |-> Dec(TRUE, 0, 6695, 5877, 4480, 0),
     EOS021 |-> Dec(FALSE, 9, 9994, 8618, 6000, 0),
     EOS121 |-> Dec(TRUE, 0, 1946, 7067, 7870, 0),
     EOS221 |-> Dec(TRUE, 1, 2177, 5543, 3000, 0),
     EOS031 |-> Dec(TRUE, 3, 4866, 1020, 1700, 0),
     EOS131 |-> Dec(FALSE, 0, 2222, 9155, 6200, 0),
     EOS041 |-> Dec(FALSE, 0, 5950, 3008, 6420, 0),
     EOS002 |-> Dec(FALSE, 1, 375, 6765, 4700, 0),
     EOS102 |-> Dec(TRUE, 3, 4249, 4706, 2900, 0),
     EOS202 |-> Dec(FALSE, 2, 542, 264, 2900, 0),
     EOS012 |-> Dec(FALSE, 2, 1836, 3248, 1400, 0),
     EOS112 |-> Dec(TRUE, 0, 3445, 3674, 3200, 0),
     EOS022 |-> Dec(TRUE, 1, 2548, 1630, 9700, 0),
     EOS003 |-> Dec(FALSE, 0, 187, 2907, 8427, 0),
     EOS103 |-> Dec(TRUE, 0, 572, 3849, 5240, 0),
     EOS013 |-> Dec(FALSE, 0, 3830, 6136, 6870, 0)]

EosCoef == [teos10 |-> EosCoef_teos10, eos80 |-> EosCoef_eos80]

\* the constants of the teos10 branch of calc_eos_s_t
EosStCoef_teos10 ==
    [rdeltaS |-> Dec(FALSE, 32, 0, 0, 0, 0),
     r1_S0 |-> Dec(FALSE, 0, 8750, 0, 0, 0) // Dec(FALSE, 35, 1650, 4000, 0, 0),
     r1_T0 |-> Dec(FALSE, 1, 0, 0, 0, 0) // Dec(FALSE, 40, 0, 0, 0, 0),
     r1_Z0 |-> Dec(FALSE, 0, 1, 0, 0, 0),
     ALP000 |-> Dec(TRUE, 0, 6502, 5362, 6700, 0),
     ALP100 |-> Dec(FALSE, 1, 6320, 4713, 1600, 0),
     ALP200 |-> Dec(TRUE, 2, 442, 6062, 7700, 0),
     ALP300 |-> Dec(FALSE, 1, 4222, 115, 8000, 0),
     ALP400 |-> Dec(TRUE, 0, 4420, 4535, 2840, 0),
     ALP500 |-> Dec(FALSE, 0, 479, 8375, 5487, 0),
     ALP010 |-> Dec(FALSE, 1, 8537, 852, 900, 0),
     ALP110 |-> Dec(TRUE, 3, 774, 1290, 6400, 0),
     ALP210 |-> Dec(FALSE, 3, 181, 2757, 5100, 0),
     ALP310 |-> Dec(TRUE, 1, 4565, 106, 2600, 0),
     ALP410 |-> Dec(FALSE, 0, 2736, 1846, 3700, 0),
     ALP020 |-> Dec(TRUE, 1, 6246, 3421, 4700, 0),
     ALP120 |-> Dec(FALSE, 2, 5086, 8313, 5200, 0),
     ALP220 |-> Dec(TRUE, 1, 4787, 8088, 4900, 0),
     ALP320 |-> Dec(FALSE, 0, 2380, 7209, 8990, 0),
     ALP030 |-> Dec(FALSE, 0, 8362, 7885, 4670, 0),
     ALP130 |-> Dec(TRUE, 1, 1311, 5385, 8400, 0),
     ALP230 |-> Dec(FALSE, 0, 5356, 3304, 450, 0),
     ALP040 |-> Dec(TRUE, 0, 675, 6090, 4739, 0),
     ALP140 |-> Dec(TRUE, 0, 602, 1247, 5204, 0),
     ALP050 |-> Dec(FALSE, 0, 286, 2535, 3333, 0),
     ALP001 |-> Dec(FALSE, 0, 3334, 752, 7820, 0),
     ALP101 |-> Dec(FALSE, 0, 1121, 7528, 6440, 0),
     ALP201 |-> Dec(TRUE, 0, 1251, 649, 5150, 0),
     ALP301 |-> Dec(FALSE, 0, 163, 4976, 916, 0),
     ALP011 |-> Dec(TRUE, 0, 3354, 239, 8020, 0),
     ALP111 |-> Dec(TRUE, 0, 1753, 1540, 6400, 0),
     ALP211 |-> Dec(FALSE, 0, 939, 7686, 4981, 0),
     ALP021 |-> Dec(FALSE, 0, 1848, 7252, 1500, 0),
     ALP121 |-> Dec(FALSE, 0, 413, 782, 5959, 0),
     ALP031 |-> Dec(TRUE, 0, 559, 2793, 5970, 0),
     ALP002 |-> Dec(TRUE, 0, 514, 1077, 8748, 0),
     ALP102 |-> Dec(FALSE, 0, 53, 2784, 1379, 4000),
     ALP012 |-> Dec(FALSE, 0, 620, 9991, 5132, 0),
     ALP003 |-> Dec(TRUE, 0, 94, 9245, 5113, 8000),
     BET000 |-> Dec(FALSE, 10, 7832, 359, 4000, 0),
     BET100 |-> Dec(TRUE, 44, 4520, 9590, 8000, 0),
     BET200 |-> Dec(FALSE, 76, 487, 5582, 0, 0),
     BET300 |-> Dec(TRUE, 63, 9442, 8066, 8000, 0),
     BET400 |-> Dec(FALSE, 26, 8904, 4109, 8000, 0),
     BET500 |-> Dec(TRUE, 4, 5221, 6977, 7300, 0),
     BET010 |-> Dec(TRUE, 0, 8121, 9372, 4320, 0),
     BET110 |-> Dec(FALSE, 2, 346, 6630, 4100, 0),
     BET210 |-> Dec(TRUE, 2, 1232, 8951, 7000, 0),
     BET310 |-> Dec(FALSE, 0, 8799, 4140, 4850, 0),
     BET410 |-> Dec(TRUE, 0, 1193, 9638, 3600, 0),
     BET020 |-> Dec(FALSE, 0, 7657, 4242, 2890, 0),
     BET120 |-> Dec(TRUE, 1, 5019, 8130, 2000, 0),
     BET220 |-> Dec(FALSE, 1, 872, 4895, 2200, 0),
     BET320 |-> Dec(TRUE, 0, 2723, 3429, 800, 0),
     BET030 |-> Dec(TRUE, 0, 4161, 5152, 3080, 0),
     BET130 |-> Dec(FALSE, 0, 4906, 1350, 8690, 0),
     BET230 |-> Dec(TRUE, 0, 1184, 7737, 7880, 0),
     BET040 |-> Dec(FALSE, 0, 1407, 3062, 7080, 0),
     BET140 |-> Dec(TRUE, 0, 1332, 7978, 8790, 0),
     BET050 |-> Dec(FALSE, 0, 59, 9298, 8013, 4000),
     BET001 |-> Dec(TRUE, 0, 5293, 7873, 90, 0),
     BET101 |-> Dec(FALSE, 1, 2634, 1167, 7900, 0),
     BET201 |-> Dec(TRUE, 1, 1547, 3280, 2500, 0),
     BET301 |-> Dec(FALSE, 0, 3287, 876, 2790, 0),
     BET011 |-> Dec(TRUE, 0, 558, 2440, 7214, 0),
     BET111 |-> Dec(FALSE, 0, 1245, 1933, 3130, 0),
     BET211 |-> Dec(TRUE, 0, 244, 953, 9932, 0),
     BET021 |-> Dec(FALSE, 0, 436, 2314, 9752, 0),
     BET121 |-> Dec(TRUE, 0, 467, 6790, 1790, 0),
     BET031 |-> Dec(TRUE, 0, 68, 5232, 6006, 0),
     BET002 |-> Dec(TRUE, 0, 616, 1894, 5251, 0),
     BET102 |-> Dec(FALSE, 0, 622, 5552, 1644, 0),
     BET012 |-> Dec(TRUE, 0, 26, 5141, 8116, 9000),
     BET003 |-> Dec(TRUE, 0, 2, 3025, 9685, 8700)]

\* the constants of the eos80 branch of calc_eos_s_t
EosStCoef_eos80 ==
    [rdeltaS |-> Dec(FALSE, 20, 0, 0, 0, 0),
     r1_S0 |-> Dec(FALSE, 1, 0, 0, 0, 0) // Dec(FALSE, 40, 0, 0, 0, 0),
     r1_T0 |-> Dec(FALSE, 1, 0, 0, 0, 0) // Dec(FALSE, 40, 0, 0, 0, 0),
     r1_Z0 |-> Dec(FALSE, 0, 1, 0, 0, 0),
     ALP000 |-> Dec(TRUE, 0, 2521, 8796, 6280, 0),
     ALP100 |-> Dec(FALSE, 0, 3411, 9354, 6540, 0),
     ALP200 |-> Dec(TRUE, 0, 2211, 9589, 9830, 0),
     ALP300 |-> Dec(FALSE, 0, 1808, 2347, 940, 0),
     ALP400 |-> Dec(TRUE, 0, 369, 3602, 6529, 0),
     ALP500 |-> Dec(TRUE, 0, 50, 918, 138, 3000),
     ALP010 |-> Dec(FALSE, 1, 2789, 9153, 0, 0),
     ALP110 |-> Dec(TRUE, 1, 2021, 7561, 6400, 0),
     ALP210 |-> Dec(FALSE, 0, 8403, 7519, 9520, 0),
     ALP310 |-> Dec(TRUE, 0, 4190, 5788, 5420, 0),
     ALP410 |-> Dec(FALSE, 0, 988, 5530, 959, 0),
     ALP020 |-> Dec(TRUE, 1, 2634, 8383, 9900, 0),
     ALP120 |-> Dec(FALSE, 1, 6112, 1951, 7600, 0),
     ALP220 |-> Dec(TRUE, 0, 7581, 7155, 4020, 0),
     ALP320 |-> Dec(FALSE, 0, 470, 696, 3580, 0),
     ALP030 |-> Dec(FALSE, 0, 8081, 2310, 1020, 0),
     ALP130 |-> Dec(TRUE, 1, 102, 3749, 8500, 0),
     ALP230 |-> Dec(FALSE, 0, 4834, 368, 6310, 0),
     ALP040 |-> Dec(TRUE, 0, 1509, 8959, 7540, 0),
     ALP140 |-> Dec(TRUE, 0, 143, 9422, 6233, 0),
     ALP050 |-> Dec(FALSE, 0, 367, 8043, 3255, 0),
     ALP001 |-> Dec(FALSE, 0, 3963, 1611, 4670, 0),
     ALP101 |-> Dec(FALSE, 0, 191, 5984, 5880, 0),
     ALP201 |-> Dec(TRUE, 0, 1028, 6156, 8250, 0),
     ALP301 |-> Dec(FALSE, 0, 167, 3896, 9362, 0),
     ALP011 |-> Dec(TRUE, 0, 4999, 7430, 9300, 0),
     ALP111 |-> Dec(FALSE, 0, 97, 3353, 3893, 7000),
     ALP211 |-> Dec(FALSE, 0, 608, 8777, 1651, 0),
     ALP021 |-> Dec(FALSE, 0, 2614, 9576, 5130, 0),
     ALP121 |-> Dec(TRUE, 0, 166, 7186, 6715, 0),
     ALP031 |-> Dec(TRUE, 0, 595, 300, 8642, 0),
     ALP002 |-> Dec(TRUE, 0, 545, 9081, 2035, 0),
     ALP102 |-> Dec(FALSE, 0, 86, 1341, 8579, 9000),
     ALP012 |-> Dec(FALSE, 0, 627, 4081, 5484, 0),
     ALP003 |-> Dec(TRUE, 0, 95, 7653, 4171, 8000),
     BET000 |-> Dec(FALSE, 2, 1420, 6239, 8700, 0),
     BET100 |-> Dec(TRUE, 9, 3752, 5986, 3500, 0),
     BET200 |-> Dec(FALSE, 19, 4463, 390, 7000, 0),
     BET300 |-> Dec(TRUE, 18, 6322, 3523, 2000, 0),
     BET400 |-> Dec(FALSE, 8, 9390, 8374, 8500, 0),
     BET500 |-> Dec(TRUE, 1, 7142, 4658, 7100, 0),
     BET010 |-> Dec(TRUE, 0, 1705, 9677, 3270, 0),
     BET110 |-> Dec(FALSE, 0, 2211, 9589, 9830, 0),
     BET210 |-> Dec(TRUE, 0, 2712, 3520, 6420, 0),
     BET310 |-> Dec(FALSE, 0, 738, 7205, 3057, 0),
     BET410 |-> Dec(FALSE, 0, 125, 2295, 346, 0),
     BET020 |-> Dec(FALSE, 0, 3005, 4390, 4090, 0),
     BET120 |-> Dec(TRUE, 0, 4201, 8759, 9760, 0),
     BET220 |-> Dec(FALSE, 0, 3142, 9341, 4060, 0),
     BET320 |-> Dec(TRUE, 0, 988, 5530, 959, 0),
     BET030 |-> Dec(TRUE, 0, 2685, 3658, 6260, 0),
     BET130 |-> Dec(FALSE, 0, 2527, 2385, 1340, 0),
     BET230 |-> Dec(TRUE, 0, 235, 348, 1790, 0),
     BET040 |-> Dec(FALSE, 0, 1262, 7968, 7310, 0),
     BET140 |-> Dec(TRUE, 0, 1208, 5092, 1580, 0),
     BET050 |-> Dec(FALSE, 0, 14, 3942, 2623, 3000),
     BET001 |-> Dec(TRUE, 0, 2227, 1304, 3750, 0),
     BET101 |-> Dec(FALSE, 0, 5545, 3416, 9190, 0),
     BET201 |-> Dec(TRUE, 0, 6281, 5936, 2680, 0),
     BET301 |-> Dec(FALSE, 0, 2060, 1115, 2020, 0),
     BET011 |-> Dec(TRUE, 0, 95, 7992, 2940, 2000),
     BET111 |-> Dec(FALSE, 0, 1028, 6156, 8250, 0),
     BET211 |-> Dec(TRUE, 0, 251, 845, 4043, 0),
     BET021 |-> Dec(TRUE, 0, 24, 3338, 3473, 4000),
     BET121 |-> Dec(TRUE, 0, 304, 4388, 5826, 0),
     BET031 |-> Dec(FALSE, 0, 27, 7864, 4452, 6000),
     BET002 |-> Dec(TRUE, 0, 428, 1183, 8287, 0),
     BET102 |-> Dec(FALSE, 0, 513, 5506, 6072, 0),
     BET012 |-> Dec(TRUE, 0, 43, 670, 9290, 0),
     BET003 |-> Dec(TRUE, 0, 7, 1548, 1190, 5000)]

\* the tables with the rdeltaS of teos10 copied into the eos80 branch
EosStCoef_copied ==
    [teos10 |-> EosStCoef_teos10,
     eos80 |-> [EosStCoef_eos80 EXCEPT !.rdeltaS = Dec(FALSE, 32, 0, 0, 0, 0)]]

EosStCoef == [teos10 |-> EosStCoef_teos10, eos80 |-> EosStCoef_eos80]

EosNames == {"teos10", "eos80"}

\* the nested sums with EOS013 written in the place of EOS103
calc_eos_rho_twice(c, zh, zt, zs) ==
    LET zn3 == (c.EOS013 ** zt)
            ++ (c.EOS013 ** zs) ++ c.EOS003
        zn2 ==
            (((c.EOS022 ** zt)
            ++ (c.EOS112 ** zs) ++ c.EOS012) ** zt)
            ++ (((c.EOS202 ** zs) ++ c.EOS102) ** zs) ++ c.EOS002
        zn1 ==
            (((((((c.EOS041 ** zt)
            ++ (c.EOS131 ** zs) ++ c.EOS031) ** zt)
            ++ (((c.EOS221 ** zs) ++ c.EOS121) ** zs) ++ c.EOS021) ** zt)
            ++ (((((c.EOS311 ** zs) ++ c.EOS211) ** zs) ++ c.EOS111) ** zs) ++ c.EOS011) ** zt)
            ++ (((((((c.EOS401 ** zs) ++ c.EOS301) ** zs) ++ c.EOS201) ** zs) ++ c.EOS101) ** zs) ++ c.EOS001
        zn0 ==
            (((((((((((c.EOS060 ** zt)
            ++ (c.EOS150 ** zs) ++ c.EOS050) ** zt)
            ++ (((c.EOS240 ** zs) ++ c.EOS140) ** zs) ++ c.EOS040) ** zt)
            ++ (((((c.EOS330 ** zs) ++ c.EOS230) ** zs) ++ c.EOS130) ** zs) ++ c.EOS030) ** zt)
            ++ (((((((c.EOS420 ** zs) ++ c.EOS320) ** zs) ++ c.EOS220) ** zs) ++ c.EOS120) ** zs) ++ c.EOS020) ** zt)
            ++ (((((((((c.EOS510 ** zs) ++ c.EOS410) ** zs) ++ c.EOS310) ** zs) ++ c.EOS210) ** zs) ++ c.EOS110) ** zs) ++ c.EOS010) ** zt)
            ++ (((((((((((c.EOS600 ** zs) ++ c.EOS500) ** zs) ++ c.EOS400) ** zs) ++ c.EOS300) ** zs) ++ c.EOS200) ** zs) ++ c.EOS100) ** zs) ++ c.EOS000
        rho == (((((zn3 ** zh) ++ zn2) ** zh) ++ zn1) ** zh) ++ zn0
    IN  <<zh, zt, zs, zn3, zn2, zn1, zn0, rho>>[8]

\* the Horner sums of calc_eos for the constants c (the final tuple is
\* built in the order of the statements)
calc_eos_rho(c, zh, zt, zs) ==
    LET zn3 == (c.EOS013 ** zt)
            ++ (c.EOS103 ** zs) ++ c.EOS003
        zn2 ==
            (((c.EOS022 ** zt)
            ++ (c.EOS112 ** zs) ++ c.EOS012) ** zt)
            ++ (((c.EOS202 ** zs) ++ c.EOS102) ** zs) ++ c.EOS002
        zn1 ==
            (((((((c.EOS041 ** zt)
            ++ (c.EOS131 ** zs) ++ c.EOS031) ** zt)
            ++ (((c.EOS221 ** zs) ++ c.EOS121) ** zs) ++ c.EOS021) ** zt)
            ++ (((((c.EOS311 ** zs) ++ c.EOS211) ** zs) ++ c.EOS111) ** zs) ++ c.EOS011) ** zt)
            ++ (((((((c.EOS401 ** zs) ++ c.EOS301) ** zs) ++ c.EOS201) ** zs) ++ c.EOS101) ** zs) ++ c.EOS001
        zn0 ==
            (((((((((((c.EOS060 ** zt)
            ++ (c.EOS150 ** zs) ++ c.EOS050) ** zt)
            ++ (((c.EOS240 ** zs) ++ c.EOS140) ** zs) ++ c.EOS040) ** zt)
            ++ (((((c.EOS330 ** zs) ++ c.EOS230) ** zs) ++ c.EOS130) ** zs) ++ c.EOS030) ** zt)
            ++ (((((((c.EOS420 ** zs) ++ c.EOS320) ** zs) ++ c.EOS220) ** zs) ++ c.EOS120) ** zs) ++ c.EOS020) ** zt)
            ++ (((((((((c.EOS510 ** zs) ++ c.EOS410) ** zs) ++ c.EOS310) ** zs) ++ c.EOS210) ** zs) ++ c.EOS110) ** zs) ++ c.EOS010) ** zt)
            ++ (((((((((((c.EOS600 ** zs) ++ c.EOS500) ** zs) ++ c.EOS400) ** zs) ++ c.EOS300) ** zs) ++ c.EOS200) ** zs) ++ c.EOS100) ** zs) ++ c.EOS000
        rho == (((((zn3 ** zh) ++ zn2) ** zh) ++ zn1) ** zh) ++ zn0
    IN  <<zh, zt, zs, zn3, zn2, zn1, zn0, rho>>[8]

\* the reduced variables of calc_eos for the constants c
calc_eos_reduced(c, S, T, Z) ==
    calc_eos_rho(c, Z ** c.r1_Z0, T ** c.r1_T0,
                 Sqrt(Abs(S ++ c.rdeltaS) ** c.r1_S0))

calc_eos(S, T, Z, eos_name) ==
    IF eos_name \notin EosNames THEN None
    ELSE Value(calc_eos_reduced(EosCoef[eos_name], S, T, Z))

\* beta = zn / zs and the pair returned. scalar is TRUE for float
\* arguments and FALSE for ndarray arguments (one element is followed): a
\* float division by zero raises in compiled scalar code and yields inf
\* or nan elementwise
calc_eos_s_t_beta(zn, zs, alpha, scalar) ==
    IF ~IsZero(zs) THEN Pair(zn // zs, alpha)
    ELSE IF scalar THEN ZeroDivisionError
    ELSE Pair(IF IsZero(zn) THEN NaN ELSE Inf(zn.neg), alpha)

\* the Horner sums of calc_eos_s_t for the constants c (the tuples are
\* built in the order of the statements)
calc_eos_s_t_sums(c, zh, zt, zs, scalar) ==
    LET zn3 == c.ALP003
        zn2 == (c.ALP012 ** zt)
            ++ (c.ALP102 ** zs) ++ c.ALP002
        zn1 ==
            (((((c.ALP031 ** zt)
            ++ (c.ALP121 ** zs) ++ c.ALP021) ** zt)
            ++ (((c.ALP211 ** zs) ++ c.ALP111) ** zs) ++ c.ALP011) ** zt)
            ++ (((((c.ALP301 ** zs) ++ c.ALP201) ** zs) ++ c.ALP101) ** zs) ++ c.ALP001
        zn0 ==
            (((((((((c.ALP050 ** zt)
            ++ (c.ALP140 ** zs) ++ c.ALP040) ** zt)
            ++ (((c.ALP230 ** zs) ++ c.ALP130) ** zs) ++ c.ALP030) ** zt)
            ++ (((((c.ALP320 ** zs) ++ c.ALP220) ** zs) ++ c.ALP120) ** zs) ++ c.ALP020) ** zt)
            ++ (((((((c.ALP410 ** zs) ++ c.ALP310) ** zs) ++ c.ALP210) ** zs) ++ c.ALP110) ** zs) ++ c.ALP010) ** zt)
            ++ (((((((((c.ALP500 ** zs) ++ c.ALP400) ** zs) ++ c.ALP300) ** zs) ++ c.ALP200) ** zs) ++ c.ALP100) ** zs) ++ c.ALP000
        alpha == <<zh, zt, zs, zn3, zn2, zn1, zn0,
                   (((((zn3 ** zh) ++ zn2) ** zh) ++ zn1) ** zh) ++ zn0>>[8]
        bzn3 == c.BET003
        bzn2 == (c.BET012 ** zt)
            ++ (c.BET102 ** zs) ++ c.BET002
        bzn1 ==
            (((((c.BET031 ** zt)
            ++ (c.BET121 ** zs) ++ c.BET021) ** zt)
            ++ (((c.BET211 ** zs) ++ c.BET111) ** zs) ++ c.BET011) ** zt)
            ++ (((((c.BET301 ** zs) ++ c.BET201) ** zs) ++ c.BET101) ** zs) ++ c.BET001
        bzn0 ==
            (((((((((c.BET050 ** zt)
            ++ (c.BET140 ** zs) ++ c.BET040) ** zt)
            ++ (((c.BET230 ** zs) ++ c.BET130) ** zs) ++ c.BET030) ** zt)
            ++ (((((c.BET320 ** zs) ++ c.BET220) ** zs) ++ c.BET120) ** zs) ++ c.BET020) ** zt)
            ++ (((((((c.BET410 ** zs) ++ c.BET310) ** zs) ++ c.BET210) ** zs) ++ c.BET110) ** zs) ++ c.BET010) ** zt)
            ++ (((((((((c.BET500 ** zs) ++ c.BET400) ** zs) ++ c.BET300) ** zs) ++ c.BET200) ** zs) ++ c.BET100) ** zs) ++ c.BET000
        zn == <<bzn3, bzn2, bzn1, bzn0,
                (((((bzn3 ** zh) ++ bzn2) ** zh) ++ bzn1) ** zh) ++ bzn0>>[5]
    IN  <<alpha, zn, calc_eos_s_t_beta(zn, zs, alpha, scalar)>>[3]

\* the reduced variables of calc_eos_s_t for the constants c
calc_eos_s_t_reduced(c, S, T, Z, scalar) ==
    calc_eos_s_t_sums(c, Z ** c.r1_Z0, T ** c.r1_T0,
                      Sqrt(Abs(S ++ c.rdeltaS) ** c.r1_S0), scalar)

calc_eos_s_t(S, T, Z, eos_name, scalar) ==
    IF eos_name \notin EosNames THEN None
    ELSE calc_eos_s_t_reduced(EosStCoef[eos_name], S, T, Z, scalar)

\* ---------------------------------------------------------------------
\* state
\* ---------------------------------------------------------------------
VARIABLES
    point,      \* the (S, T, Z) a kernel is called with
    kcall,      \* the kernel call made at point and what it returned
    made,       \* what each call of NEMO_eos so far was given and returned
    calls,      \* the calls of returned eos / eos_s_t functions so far
    hgrid,      \* the hgriddata dictionary: the shape of each array it holds
    gcall,      \* the grid builder call made on hgrid and its outcome
    widths,     \* the values the arrays of hgrid hold
    dataset,    \* the file a loader opens: its variables and dimensions
    zgriddata,  \* the zgriddata dictionary given to load_tsdata
    lcall       \* the loader call made on dataset and its outcome

vars == <<point, kcall, made, calls, hgrid, gcall,
          widths, dataset, zgriddata, lcall>>

\* ---------------------------------------------------------------------
\* inputs
\* ---------------------------------------------------------------------
NumS == 4
NumT == 2
NumZ == 2
NumCoef == 2
NumH == 2

SPoints == <<Int2F(35), Int2F(-32), Int2F(-20), Int2F(30), Int2F(0), Int2F(40)>>
TPoints == <<Int2F(10), Int2F(2), Int2F(-2), Int2F(25)>>
ZPoints == <<Int2F(0), Int2F(3000), Int2F(1000)>>

\* only rn_a0 and rn_b0 non-zero: the linear equation of state of the
\* NEMO_eos docstring
LinearCoef ==
    [rn_a0      |-> Dec(FALSE, 0, 2000, 0, 0, 0),
     rn_b0      |-> Dec(FALSE, 0, 8000, 0, 0, 0),
     rn_nu      |-> Zero,
     rn_lambda1 |-> Zero,
     rn_lambda2 |-> Zero,
     rn_mu1     |-> Zero,
     rn_mu2     |-> Zero]

\* every coefficient overridden, some with the other sign
OtherCoef ==
    [rn_a0      |-> Dec(FALSE, 0, 1500, 0, 0, 0),
     rn_b0      |-> Dec(FALSE, 1, 2500, 0, 0, 0),
     rn_nu      |-> Dec(TRUE, 0, 30, 0, 0, 0),
     rn_lambda1 |-> Dec(FALSE, 0, 600, 0, 0, 0),
     rn_lambda2 |-> Dec(TRUE, 0, 8, 0, 0, 0),
     rn_mu1     |-> Dec(FALSE, 0, 2, 0, 0, 0),
     rn_mu2     |-> Dec(FALSE, 0, 0, 3000, 0, 0)]

CoefSets == <<DefaultCoef, LinearCoef, OtherCoef>>

\* steps of the central differences that are exact in 16 decimals
HSteps == <<Half, One, Int2F(2)>>

SSet == {SPoints[i] : i \in 1..NumS}
TSet == {TPoints[i] : i \in 1..NumT}
ZSet == {ZPoints[i] : i \in 1..NumZ}
CoefSet == {CoefSets[i] : i \in 1..NumCoef}
HSet == {HSteps[i] : i \in 1..NumH}

\* the names a caller may pass as eos_name
NameArgs == {"teos10", "eos80", "seos", "gsw"}

NoCall == [fn |-> "none"]

\* no file opened, no dictionary given
NoDataset == [exists |-> FALSE, vars |-> {}, dims |-> {}]
NoLoader ==
    /\ dataset = NoDataset
    /\ zgriddata = <<>>
    /\ lcall = NoCall

\* ---------------------------------------------------------------------
\* the kernels applied to a point
\* ---------------------------------------------------------------------
InitKernel ==
    /\ point \in [S : SSet, T : TSet, Z : ZSet]
    /\ kcall = NoCall
    /\ made = <<>>
    /\ calls = {}
    /\ hgrid = <<>>
    /\ gcall = NoCall
    /\ widths = "unit"
    /\ NoLoader

Call_calc_seos ==
    /\ kcall = NoCall
    /\ \E p \in CoefSet :
         kcall' = [fn |-> "calc_seos", coef |-> p,
                   out |-> Value(calc_seos(point.S, point.T, point.Z, p))]
    /\ UNCHANGED <<point, made, calls, hgrid, gcall, widths, dataset, zgriddata, lcall>>

Call_calc_seos_s_t ==
    /\ kcall = NoCall
    /\ \E p \in CoefSet :
         LET r == calc_seos_s_t(point.S, point.T, point.Z, p)
         IN  kcall' = [fn |-> "calc_seos_s_t", coef |-> p, out |-> Pair(r[1], r[2])]
    /\ UNCHANGED <<point, made, calls, hgrid, gcall, widths, dataset, zgriddata, lcall>>

Call_calc_eos ==
    /\ kcall = NoCall
    /\ \E n \in NameArgs :
         kcall' = [fn |-> "calc_eos", eos_name |-> n,
                   out |-> calc_eos(point.S, point.T, point.Z, n)]
    /\ UNCHANGED <<point, made, calls, hgrid, gcall, widths, dataset, zgriddata, lcall>>

Call_calc_eos_s_t ==
    /\ kcall = NoCall
    /\ \E n \in NameArgs, sc \in BOOLEAN :
         kcall' = [fn |-> "calc_eos_s_t", eos_name |-> n, scalar |-> sc,
                   out |-> calc_eos_s_t(point.S, point.T, point.Z, n, sc)]
    /\ UNCHANGED <<point, made, calls, hgrid, gcall, widths, dataset, zgriddata, lcall>>

NextKernel ==
    \/ Call_calc_seos
    \/ Call_calc_seos_s_t
    \/ Call_calc_eos
    \/ Call_calc_eos_s_t

SpecKernel == InitKernel /\ [][NextKernel]_vars

\* ---------------------------------------------------------------------
\* the factory NEMO_eos and the functions it returns
\* ---------------------------------------------------------------------
MaxPairs == 2
MaxCalls == 2
NumF == 1

\* where returned functions are called
FPoints == <<[S |-> Int2F(30), T |-> Int2F(2), Z |-> Int2F(3000)],
             [S |-> Int2F(35), T |-> Int2F(10), Z |-> Int2F(0)]>>
FSet == {FPoints[i] : i \in 1..NumF}
FAll == {FPoints[i] : i \in 1..Len(FPoints)}

\* the arguments NEMO_eos is called with
FactoryArgs ==
    [eos_name : {"teos10", "eos80", "seos"}, coef : {DefaultCoef, LinearCoef}]
    \cup {[eos_name |-> "gsw", coef |-> DefaultCoef]}

\* NEMO_eos with the coefficients of the seos closures left at their
\* defaults
NEMO_eos_defaults(eos_name, p) ==
    IF eos_name \in {"teos10", "eos80"}
    THEN [ret |-> "pair", env |-> [eos_name |-> eos_name]]
    ELSE IF eos_name = "seos"
    THEN [ret |-> "pair", env |-> [eos_name |-> eos_name, coef |-> DefaultCoef]]
    ELSE [ret |-> "None"]

\* the value NEMO_eos returns: a pair of closures over env, the free
\* variables of eos and eos_s_t in the branch taken, or None
NEMO_eos(eos_name, p) ==
    IF eos_name \in {"teos10", "eos80"}
    THEN [ret |-> "pair", env |-> [eos_name |-> eos_name]]
    ELSE IF eos_name = "seos"
    THEN [ret |-> "pair", env |-> [eos_name |-> eos_name, coef |-> p]]
    ELSE [ret |-> "None"]

\* the closure eos of a pair
eos(env, S, T, Z) ==
    IF env.eos_name = "seos"
    THEN Value(calc_seos(S, T, Z, env.coef))
    ELSE calc_eos(S, T, Z, env.eos_name)

\* the closure eos_s_t of a pair, called with floats
eos_s_t(env, S, T, Z) ==
    IF env.eos_name = "seos"
    THEN LET r == calc_seos_s_t(S, T, Z, env.coef) IN Pair(r[1], r[2])
    ELSE calc_eos_s_t(S, T, Z, env.eos_name, TRUE)

\* the free variables a pair can close over
Envs ==
    {[eos_name |-> n] : n \in EosNames}
    \cup {[eos_name |-> "seos", coef |-> p] : p \in {DefaultCoef, LinearCoef}}

\* the values of the closures at the points they are called at
eos_at == [env \in Envs, q \in FAll |-> eos(env, q.S, q.T, q.Z)]
eos_s_t_at == [env \in Envs, q \in FAll |-> eos_s_t(env, q.S, q.T, q.Z)]

InitFactory ==
    /\ point = FPoints[1]
    /\ kcall = NoCall
    /\ made = <<>>
    /\ calls = {}
    /\ hgrid = <<>>
    /\ gcall = NoCall
    /\ widths = "unit"
    /\ NoLoader

\* a call of NEMO_eos whose closures read module-level variables, which
\* every later call overwrites
Call_NEMO_eos_global ==
    /\ Len(made) < MaxPairs
    /\ \E a \in FactoryArgs :
         LET r == NEMO_eos(a.eos_name, a.coef)
             over(m) == IF r.ret = "pair" /\ m.ret = "pair"
                        THEN [m EXCEPT !.env = r.env] ELSE m
         IN  made' = Append([i \in 1..Len(made) |-> over(made[i])],
                            [args |-> a] @@ r)
    /\ UNCHANGED <<point, kcall, calls, hgrid, gcall, widths, dataset, zgriddata, lcall>>

Call_NEMO_eos ==
    /\ Len(made) < MaxPairs
    /\ \E a \in FactoryArgs :
         made' = Append(made, [args |-> a] @@ NEMO_eos(a.eos_name, a.coef))
    /\ UNCHANGED <<point, kcall, calls, hgrid, gcall, widths, dataset, zgriddata, lcall>>

Call_eos ==
    /\ Cardinality(calls) < MaxCalls
    /\ \E i \in 1..Len(made), pt \in FSet :
         /\ made[i].ret = "pair"
         /\ calls' = calls \cup
              {[pair |-> i, fn |-> "eos", at |-> pt,
                out |-> eos_at[made[i].env, pt]]}
    /\ UNCHANGED <<point, kcall, made, hgrid, gcall, widths, dataset, zgriddata, lcall>>

Call_eos_s_t ==
    /\ Cardinality(calls) < MaxCalls
    /\ \E i \in 1..Len(made), pt \in FSet :
         /\ made[i].ret = "pair"
         /\ calls' = calls \cup
              {[pair |-> i, fn |-> "eos_s_t", at |-> pt,
                out |-> eos_s_t_at[made[i].env, pt]]}
    /\ UNCHANGED <<point, kcall, made, hgrid, gcall, widths, dataset, zgriddata, lcall>>

NextFactory ==
    \/ Call_NEMO_eos
    \/ Call_eos
    \/ Call_eos_s_t

SpecFactory == InitFactory /\ [][NextFactory]_vars

\* ---------------------------------------------------------------------
\* grid.py: the grid builders
\* ---------------------------------------------------------------------
NumShapes == 3
NumGridtypes == 5

\* the shapes an array of hgriddata can have
Shapes == << <<2, 3>>, <<3, 2>>, <<3>>, <<1, 2, 3>>, <<>> >>
ShapeSet == {Shapes[i] : i \in 1..NumShapes}

Keys == {"e1u", "e1v", "e2u", "e2v"}
HgridSet == UNION {[K -> ShapeSet] : K \in SUBSET Keys}

\* str.lower on the selectors used
Gridtypes == <<"rectilinear", "orca", "curvilinear", "ORCA", "Rectilinear", "">>
GridtypeSet == {Gridtypes[i] : i \in 1..NumGridtypes}
lower(str) ==
    CASE str = "ORCA" -> "orca"
      [] str = "Rectilinear" -> "rectilinear"
      [] OTHER -> str

Raise(exc) == [kind |-> "error", error |-> exc]

\* the values the arrays of hgriddata hold: 1 everywhere, or a value
\* that differs from array to array and from cell to cell
WidthSet == {"unit", "varied"}
ArrayNo(name) ==
    CASE name = "e1u" -> 1
      [] name = "e1v" -> 2
      [] name = "e2u" -> 3
      [] name = "e2v" -> 4
Width(w, name, j, i) ==
    IF w = "unit" THEN 1 ELSE 1000 * ArrayNo(name) + 10 * j + i

\* DataArray.to_numpy: the array held under a key of hgriddata
to_numpy(hg, key) == [name |-> key, shape |-> hg[key]]

\* the graph a library builder returns (edges, dist, distperp), with what
\* the library was asked for
Grid(builder, shape, periodic, edges, dist, distperp) ==
    [kind |-> "grid", builder |-> builder, shape |-> shape,
     periodic |-> periodic,
     edges |-> edges, dist |-> dist, distperp |-> distperp]

\* the positions (p0, p1) of a grid of the dimensions dims, in the order of
\* their linear index p0 * dims[2] + p1
Positions(dims) ==
    [k \in 1..(dims[1] * dims[2]) |-> <<(k - 1) \div dims[2], (k - 1) % dims[2]>>]
Node(dims, p) == p[1] * dims[2] + p[2]

\* the neighbour of p one step back along dimension d, around the grid
Prev(dims, d, p) == [p EXCEPT ![d] = (p[d] + dims[d] - 1) % dims[d]]

\* the positions joined to their neighbour along dimension d: all of them
\* when d is periodic, all but the first along d when it is not
EdgesAlong(dims, periodic, d) ==
    SelectSeq(Positions(dims), LAMBDA p : p[d] >= 1 \/ periodic[d])

\* the value the library reads for position p from an array given as being
\* of the dimensions dims; -1 stands for what it reads from an array of
\* another shape
Read(arr, dims, p) ==
    IF arr.shape = dims THEN Width(widths, arr.name, p[1], p[2]) ELSE -1

\* neutralocean.grid.rectilinear.build_grid: the outcomes it can have.
\* One edge for every pair of neighbours along each dimension, with dist
\* from dxC along the first dimension and from dyC along the second, and
\* distperp from dyG and dxG. The library is given arrays it reads as being
\* of the shape dims; what it does with an array of another shape is its
\* own affair.
rectilinear_build_grid(shape, periodic, dyC, dxC, dyG, dxG) ==
    LET e1 == EdgesAlong(shape, periodic, 1)
        e2 == EdgesAlong(shape, periodic, 2)
        g  == Grid("rectilinear", shape, periodic,
                   << [k \in 1..Len(e1) |-> Node(shape, e1[k])]
                        \o [k \in 1..Len(e2) |-> Node(shape, e2[k])],
                      [k \in 1..Len(e1) |-> Node(shape, Prev(shape, 1, e1[k]))]
                        \o [k \in 1..Len(e2) |-> Node(shape, Prev(shape, 2, e2[k]))] >>,
                   [k \in 1..Len(e1) |-> Read(dxC, shape, e1[k])]
                     \o [k \in 1..Len(e2) |-> Read(dyC, shape, e2[k])],
                   [k \in 1..Len(e1) |-> Read(dyG, shape, e1[k])]
                     \o [k \in 1..Len(e2) |-> Read(dxG, shape, e2[k])])
    IN  IF {dyC.shape, dxC.shape, dyG.shape, dxG.shape} = {shape}
        THEN {g}
        ELSE {g, Raise("LibraryError")}

\* the positions of the last row joined to their mirror image across the
\* fold of the tripolar grid
FoldEdges(dims) ==
    SelectSeq(Positions(dims),
              LAMBDA p : p[1] = dims[1] - 1 /\ p[2] < dims[2] - 1 - p[2])
Mirror(dims, p) == [p EXCEPT ![2] = dims[2] - 1 - p[2]]

\* neutralocean.grid.tripolar.build_grid: the outcomes it can have. The
\* edges of a grid periodic in i and closed in j, and the edges across the
\* fold of the last row.
tripolar_build_grid(shape, e1u, e2u, e1v, e2v) ==
    LET e1 == EdgesAlong(shape, <<FALSE, TRUE>>, 1)
        e2 == EdgesAlong(shape, <<FALSE, TRUE>>, 2)
        ef == FoldEdges(shape)
        g  == Grid("tripolar", shape, <<>>,
                   << [k \in 1..Len(e1) |-> Node(shape, e1[k])]
                        \o [k \in 1..Len(e2) |-> Node(shape, e2[k])]
                        \o [k \in 1..Len(ef) |-> Node(shape, ef[k])],
                      [k \in 1..Len(e1) |-> Node(shape, Prev(shape, 1, e1[k]))]
                        \o [k \in 1..Len(e2) |-> Node(shape, Prev(shape, 2, e2[k]))]
                        \o [k \in 1..Len(ef) |-> Node(shape, Mirror(shape, ef[k]))] >>,
                   [k \in 1..Len(e1) |-> Read(e2v, shape, e1[k])]
                     \o [k \in 1..Len(e2) |-> Read(e1u, shape, e2[k])]
                     \o [k \in 1..Len(ef) |-> Read(e2v, shape, ef[k])],
                   [k \in 1..Len(e1) |-> Read(e1v, shape, e1[k])]
                     \o [k \in 1..Len(e2) |-> Read(e2u, shape, e2[k])]
                     \o [k \in 1..Len(ef) |-> Read(e1v, shape, ef[k])])
    IN  IF {e1u.shape, e2u.shape, e1v.shape, e2v.shape} = {shape}
        THEN {g}
        ELSE {g, Raise("LibraryError")}

\* the lookups with the last dimension of e1u taken for both dimensions
Lookups_lastdim(hg) ==
    IF "e1u" \notin DOMAIN hg THEN Raise("KeyError")
    ELSE IF "e1v" \notin DOMAIN hg THEN Raise("KeyError")
    ELSE IF "e2u" \notin DOMAIN hg THEN Raise("KeyError")
    ELSE IF "e2v" \notin DOMAIN hg THEN Raise("KeyError")
    ELSE IF Len(hg["e1u"]) < 2 THEN Raise("IndexError")
    ELSE [kind |-> "shape",
          shape |-> <<hg["e1u"][Len(hg["e1u"])], hg["e1u"][Len(hg["e1u"])]>>]

\* the dictionary lookups and the shape taken from e1u; the outcome of an
\* early exit, or the shape
Lookups(hg) ==
    IF "e1u" \notin DOMAIN hg THEN Raise("KeyError")
    ELSE IF "e1v" \notin DOMAIN hg THEN Raise("KeyError")
    ELSE IF "e2u" \notin DOMAIN hg THEN Raise("KeyError")
    ELSE IF "e2v" \notin DOMAIN hg THEN Raise("KeyError")
    ELSE IF Len(hg["e1u"]) < 2 THEN Raise("IndexError")
    ELSE [kind |-> "shape",
          shape |-> <<hg["e1u"][Len(hg["e1u"]) - 1], hg["e1u"][Len(hg["e1u"])]>>]

\* build_nemo_hgrid taking the rectilinear branch for every selector that
\* is not orca
build_nemo_hgrid_fallback(hg, iperio, jperio, gridtype) ==
    LET l == Lookups(hg)
    IN  IF l.kind = "error" THEN {l}
        ELSE IF lower(gridtype) = "orca"
        THEN tripolar_build_grid(l.shape,
                                 to_numpy(hg, "e1u"), to_numpy(hg, "e2u"),
                                 to_numpy(hg, "e1v"), to_numpy(hg, "e2v"))
        ELSE rectilinear_build_grid(l.shape, <<jperio, iperio>>,
                                    to_numpy(hg, "e1u"), to_numpy(hg, "e2v"),
                                    to_numpy(hg, "e1v"), to_numpy(hg, "e2u"))

\* build_nemo_hgrid with the i direction always periodic
build_nemo_hgrid_iperiodic(hg, iperio, jperio, gridtype) ==
    LET l == Lookups(hg)
    IN  IF l.kind = "error" THEN {l}
        ELSE IF lower(gridtype) = "rectilinear"
        THEN rectilinear_build_grid(l.shape, <<jperio, TRUE>>,
                                    to_numpy(hg, "e1u"), to_numpy(hg, "e2v"),
                                    to_numpy(hg, "e1v"), to_numpy(hg, "e2u"))
        ELSE IF lower(gridtype) = "orca"
        THEN tripolar_build_grid(l.shape,
                                 to_numpy(hg, "e1u"), to_numpy(hg, "e2u"),
                                 to_numpy(hg, "e1v"), to_numpy(hg, "e2v"))
        ELSE {Raise("ValueError")}

\* build_nemo_hgrid giving the flags in the order (iperio, jperio)
build_nemo_hgrid_flagorder(hg, iperio, jperio, gridtype) ==
    LET l == Lookups(hg)
    IN  IF l.kind = "error" THEN {l}
        ELSE IF lower(gridtype) = "rectilinear"
        THEN rectilinear_build_grid(l.shape, <<iperio, jperio>>,
                                    to_numpy(hg, "e1u"), to_numpy(hg, "e2v"),
                                    to_numpy(hg, "e1v"), to_numpy(hg, "e2u"))
        ELSE IF lower(gridtype) = "orca"
        THEN tripolar_build_grid(l.shape,
                                 to_numpy(hg, "e1u"), to_numpy(hg, "e2u"),
                                 to_numpy(hg, "e1v"), to_numpy(hg, "e2v"))
        ELSE {Raise("ValueError")}

\* build_nemo_hgrid giving e2v as dyC and e1u as dxC
build_nemo_hgrid_swapped(hg, iperio, jperio, gridtype) ==
    LET l == Lookups(hg)
    IN  IF l.kind = "error" THEN {l}
        ELSE IF lower(gridtype) = "rectilinear"
        THEN rectilinear_build_grid(l.shape, <<jperio, iperio>>,
                                    to_numpy(hg, "e2v"), to_numpy(hg, "e1u"),
                                    to_numpy(hg, "e1v"), to_numpy(hg, "e2u"))
        ELSE IF lower(gridtype) = "orca"
        THEN tripolar_build_grid(l.shape,
                                 to_numpy(hg, "e1u"), to_numpy(hg, "e2u"),
                                 to_numpy(hg, "e1v"), to_numpy(hg, "e2v"))
        ELSE {Raise("ValueError")}

\* build_nemo_hgrid giving iperio for both directions
build_nemo_hgrid_oneflag(hg, iperio, jperio, gridtype) ==
    LET l == Lookups(hg)
    IN  IF l.kind = "error" THEN {l}
        ELSE IF lower(gridtype) = "rectilinear"
        THEN rectilinear_build_grid(l.shape, <<iperio, iperio>>,
                                    to_numpy(hg, "e1u"), to_numpy(hg, "e2v"),
                                    to_numpy(hg, "e1v"), to_numpy(hg, "e2u"))
        ELSE IF lower(gridtype) = "orca"
        THEN tripolar_build_grid(l.shape,
                                 to_numpy(hg, "e1u"), to_numpy(hg, "e2u"),
                                 to_numpy(hg, "e1v"), to_numpy(hg, "e2v"))
        ELSE {Raise("ValueError")}

\* the orca branch handing the two flags on, as the rectilinear branch does
build_nemo_hgrid_orcaflags(hg, iperio, jperio, gridtype) ==
    LET l == Lookups(hg)
    IN  IF l.kind = "error" THEN {l}
        ELSE IF lower(gridtype) \in {"rectilinear", "orca"}
        THEN rectilinear_build_grid(l.shape, <<jperio, iperio>>,
                                    to_numpy(hg, "e1u"), to_numpy(hg, "e2v"),
                                    to_numpy(hg, "e1v"), to_numpy(hg, "e2u"))
        ELSE {Raise("ValueError")}

\* build_nemo_hgrid: the set of outcomes of a call
build_nemo_hgrid(hg, iperio, jperio, gridtype) ==
    LET l == Lookups(hg)
    IN  IF l.kind = "error" THEN {l}
        ELSE IF lower(gridtype) = "rectilinear"
        THEN rectilinear_build_grid(l.shape, <<jperio, iperio>>,
                                    to_numpy(hg, "e1u"), to_numpy(hg, "e2v"),
                                    to_numpy(hg, "e1v"), to_numpy(hg, "e2u"))
        ELSE IF lower(gridtype) = "orca"
        THEN tripolar_build_grid(l.shape,
                                 to_numpy(hg, "e1u"), to_numpy(hg, "e2u"),
                                 to_numpy(hg, "e1v"), to_numpy(hg, "e2v"))
        ELSE {Raise("ValueError")}

\* build_nemo_grid (neutralNEMO_afstyles): the set of outcomes of a call
build_nemo_grid(hg, iperio, jperio) ==
    LET l == Lookups(hg)
    IN  IF l.kind = "error" THEN {l}
        ELSE rectilinear_build_grid(l.shape, <<jperio, iperio>>,
                                    to_numpy(hg, "e1u"), to_numpy(hg, "e2v"),
                                    to_numpy(hg, "e1v"), to_numpy(hg, "e2u"))

InitGrid ==
    /\ point = FPoints[1]
    /\ kcall = NoCall
    /\ made = <<>>
    /\ calls = {}
    /\ hgrid \in HgridSet
    /\ gcall = NoCall
    /\ widths \in WidthSet
    /\ NoLoader

Call_build_nemo_hgrid ==
    /\ gcall = NoCall
    /\ \E iperio \in BOOLEAN, jperio \in BOOLEAN, gridtype \in GridtypeSet :
         \E out \in build_nemo_hgrid(hgrid, iperio, jperio, gridtype) :
            gcall' = [fn |-> "build_nemo_hgrid", gridtype |-> gridtype,
                      iperio |-> iperio, jperio |-> jperio, out |-> out]
    /\ UNCHANGED <<point, kcall, made, calls, hgrid, widths, dataset, zgriddata, lcall>>

Call_build_nemo_grid ==
    /\ gcall = NoCall
    /\ \E iperio \in BOOLEAN, jperio \in BOOLEAN :
         \E out \in build_nemo_grid(hgrid, iperio, jperio) :
            gcall' = [fn |-> "build_nemo_grid",
                      iperio |-> iperio, jperio |-> jperio, out |-> out]
    /\ UNCHANGED <<point, kcall, made, calls, hgrid, widths, dataset, zgriddata, lcall>>

NextGrid ==
    \/ Call_build_nemo_hgrid
    \/ Call_build_nemo_grid

SpecGrid == InitGrid /\ [][NextGrid]_vars

\* the builders on four arrays of one shape (ny, nx)
NumGraphShapes == 6
GraphShapes ==
    << <<3, 3>>, <<2, 3>>, <<1, 3>>, <<3, 1>>, <<1, 1>>, <<2, 2>>, <<3, 2>> >>
GraphShapeSet == {GraphShapes[n] : n \in 1..NumGraphShapes}

InitGraph ==
    /\ point = FPoints[1]
    /\ kcall = NoCall
    /\ made = <<>>
    /\ calls = {}
    /\ hgrid \in {[key \in Keys |-> sh] : sh \in GraphShapeSet}
    /\ gcall = NoCall
    /\ widths \in WidthSet
    /\ NoLoader

SpecGraph == InitGraph /\ [][NextGrid]_vars

\* ---------------------------------------------------------------------
\* grid.py: the loaders
\* ---------------------------------------------------------------------
\* a file with the variables vs on the dimensions ds
File(vs, ds) == [exists |-> TRUE, vars |-> vs, dims |-> ds]

\* what a loader leaves: the dictionary it returns or the error it raises,
\* and what it printed
Dict(data) == [kind |-> "dict", data |-> data]
Left(out, prints) == [out |-> out, prints |-> prints]
Opening == [msg |-> "Opening multiple files as a single dataset", var |-> ""]
NotFound(varname) == [msg |-> "not found in", var |-> varname]
EmptyDict == [key \in {} |-> ""]

\* xr.open_dataset / xr.open_mfdataset with the print before the latter
open_dataset(ds, open_mf) ==
    [ds |-> ds,
     out |-> IF ds.exists THEN Dict(EmptyDict) ELSE Raise("FileNotFoundError"),
     prints |-> IF open_mf THEN <<Opening>> ELSE <<>>]

\* if old != new: dataset = dataset.rename({old: new}); rename raises when
\* the dataset has nothing called old or already has something called new
rename(st, old, new) ==
    IF st.out.kind = "error" \/ old = new THEN st
    ELSE IF old \notin st.ds.dims \cup st.ds.vars \/ new \in st.ds.dims \cup st.ds.vars
    THEN [st EXCEPT !.out = Raise("ValueError")]
    ELSE [st EXCEPT !.ds.dims = (@ \ {old}) \cup {new}]

\* try: data[key] = dataset[varname]...  except: print(... not found ...)
TryLoad(st, key, varname) ==
    IF st.out.kind = "error" THEN st
    ELSE IF varname \in st.ds.vars
    THEN [st EXCEPT !.out.data = @ @@ (key :> varname)]
    ELSE [st EXCEPT !.prints = Append(@, NotFound(varname))]

\* a line printed that names no variable
Hint(text) == [msg |-> text, var |-> ""]
Say(st, line) ==
    IF st.out.kind = "error" THEN st ELSE [st EXCEPT !.prints = Append(@, line)]

\* try: data[key] = <val made from dataset[varname]>
\* except: print(... not found ...) and the hints that follow it
TryLoadHinted(st, key, varname, val, hints) ==
    IF st.out.kind = "error" THEN st
    ELSE IF varname \in st.ds.vars
    THEN [st EXCEPT !.out.data = @ @@ (key :> val)]
    ELSE [st EXCEPT !.prints = Append(@, NotFound(varname)) \o hints]

\* data[key] = <val made from dataset[varname]>, outside any try
LoadAs(st, key, varname, val) ==
    IF st.out.kind = "error" THEN st
    ELSE IF varname \in st.ds.vars
    THEN [st EXCEPT !.out.data = @ @@ (key :> val)]
    ELSE [st EXCEPT !.out = Raise("KeyError")]

\* load_hgriddata with the lookup of e1v outside its try
load_hgriddata_unguarded(ds, i_dim, j_dim, open_mf) ==
    LET s0 == rename(rename(open_dataset(ds, open_mf), i_dim, "x"), j_dim, "y")
        s4 == TryLoad(LoadAs(TryLoad(TryLoad(s0, "e1u", "e1u"),
                                     "e2u", "e2u"), "e1v", "e1v", "e1v"), "e2v", "e2v")
    IN  Left(s4.out, s4.prints)

\* load_hgriddata (neutralNEMO) with the default variable names
load_hgriddata(ds, i_dim, j_dim, open_mf) ==
    LET s0 == rename(rename(open_dataset(ds, open_mf), i_dim, "x"), j_dim, "y")
        s4 == TryLoad(TryLoad(TryLoad(TryLoad(s0, "e1u", "e1u"),
                                      "e2u", "e2u"), "e1v", "e1v"), "e2v", "e2v")
    IN  Left(s4.out, s4.prints)

\* load_hgriddata (neutralNEMO_afstyles): no dimension is renamed
load_hgriddata_afstyles(ds, open_mf) ==
    LET s0 == open_dataset(ds, open_mf)
        s4 == TryLoad(TryLoad(TryLoad(TryLoad(s0, "e1u", "e1u"),
                                      "e2u", "e2u"), "e1v", "e1v"), "e2v", "e2v")
    IN  Left(s4.out, s4.prints)

\* the names a caller may pass for the dimensions, and the dimensions a
\* file may have
IDims == {"x", "i"}
JDims == {"y", "j"}
HDimSets == {{"x", "y"}, {"i", "j"}, {"x", "j"}}
HFileSet == {File(vs, ds) : vs \in SUBSET Keys, ds \in HDimSets} \cup {NoDataset}

InitHLoad ==
    /\ point = FPoints[1]
    /\ kcall = NoCall
    /\ made = <<>>
    /\ calls = {}
    /\ hgrid = <<>>
    /\ gcall = NoCall
    /\ widths = "unit"
    /\ dataset \in HFileSet
    /\ zgriddata = <<>>
    /\ lcall = NoCall

Call_load_hgriddata ==
    /\ lcall = NoCall
    /\ \E i_dim \in IDims, j_dim \in JDims, open_mf \in BOOLEAN :
         lcall' = [fn |-> "load_hgriddata", i_dim |-> i_dim, j_dim |-> j_dim,
                   open_mf |-> open_mf]
                  @@ load_hgriddata(dataset, i_dim, j_dim, open_mf)
    /\ UNCHANGED <<point, kcall, made, calls, hgrid, gcall, widths, dataset, zgriddata>>

Call_load_hgriddata_afstyles ==
    /\ lcall = NoCall
    /\ \E open_mf \in BOOLEAN :
         lcall' = [fn |-> "load_hgriddata_afstyles", i_dim |-> "x", j_dim |-> "y",
                   open_mf |-> open_mf]
                  @@ load_hgriddata_afstyles(dataset, open_mf)
    /\ UNCHANGED <<point, kcall, made, calls, hgrid, gcall, widths, dataset, zgriddata>>

NextHLoad ==
    \/ Call_load_hgriddata
    \/ Call_load_hgriddata_afstyles

SpecHLoad == InitHLoad /\ [][NextHLoad]_vars

\* infer_dataset = xr.open_dataset(infer_path)
open_infer(st) ==
    IF st.out.kind = "error" THEN st
    ELSE IF ~st.ds.infer.exists
    THEN [st EXCEPT !.out = Raise("FileNotFoundError")]
    ELSE st

\* if old != new: infer_dataset = infer_dataset.rename({old: new})
rename_infer(st, old, new) ==
    IF st.out.kind = "error" \/ old = new THEN st
    ELSE IF \/ old \notin st.ds.infer.dims \cup st.ds.infer.vars
            \/ new \in st.ds.infer.dims \cup st.ds.infer.vars
    THEN [st EXCEPT !.out = Raise("ValueError")]
    ELSE [st EXCEPT !.ds.infer.dims = (@ \ {old}) \cup {new}]

\* zgriddata["tmask3d"] from the variable infer_varname of infer_dataset
InferMask3d(st, infer_val) ==
    IF st.out.kind = "error" THEN st
    ELSE IF "so" \notin st.ds.infer.vars
    THEN [st EXCEPT !.out = Raise("KeyError")]
    ELSE [st EXCEPT !.out.data = @ @@ ("tmask3d" :>
              IF infer_val = "None" THEN "notnull(so)"
              ELSE "where(so == infer_val, False, True)")]

\* load_zgriddata, the part that opens and renames
load_zgriddata_open(ds, vert_dim, open_mf, infer_tmask3d) ==
    LET s1 == rename(rename(rename(open_dataset(ds, open_mf),
                                   vert_dim, "z_t"), "x", "x"), "y", "y")
    IN  IF infer_tmask3d
        THEN rename_infer(rename_infer(rename_infer(open_infer(s1),
                                       "deptht", "z_t"), "x", "x"), "y", "y")
        ELSE s1

\* load_zgriddata, the deptht part
load_zgriddata_deptht(st, calc_deptht) ==
    IF ~calc_deptht
    THEN TryLoadHinted(st, "deptht", "gdept_0", "gdept_0",
             <<Hint("Try running with calc_deptht = True"),
               Hint("Or add the depth manually using the key deptht")>>)
    ELSE LoadAs(st, "deptht", "e3w_0", "cumsum(e3w_0)")

\* load_zgriddata, the tmask3d part
load_zgriddata_tmask3d(st, infer_tmask3d, infer_val) ==
    IF ~infer_tmask3d
    THEN TryLoadHinted(Say(st, Hint("Loading masks directly from files")),
             "tmask3d", "tmask", "tmask",
             <<Hint("Try running with infer_tmask3d = True"),
               Hint("Or add the mask manually using the key tmask3d")>>)
    ELSE InferMask3d(Say(st, Hint("Inferring tmask3d from other data field")),
                     infer_val)

\* load_zgriddata, the tmask2d part
load_zgriddata_tmask2d(st, infer_tmask2d) ==
    IF ~infer_tmask2d
    THEN TryLoadHinted(st, "tmask2d", "tmaskutil", "tmaskutil",
             <<Hint("Try running with infer_tmask2d = True"),
               Hint("Or add the tmask2d manually using the key tmask2d")>>)
    ELSE LoadAs(Say(st, Hint("Inferring tmask2d from bottom level data")),
                "tmask2d", "bottom_level", "where(blev == 0, False, True)")

\* load_zgriddata with the default variable names and the default names
\* of the i, j and infer dimensions
load_zgriddata(ds, vert_dim, open_mf, infer_tmask2d, infer_tmask3d, infer_val, calc_deptht) ==
    LET s5 == load_zgriddata_tmask2d(
                  load_zgriddata_tmask3d(
                      load_zgriddata_deptht(
                          load_zgriddata_open(ds, vert_dim, open_mf, infer_tmask3d),
                          calc_deptht),
                      infer_tmask3d, infer_val),
                  infer_tmask2d)
    IN  Left(s5.out, s5.prints)

\* the files load_zgriddata may meet, each with the file infer_path
ZVars == {"gdept_0", "tmask", "tmaskutil", "e3w_0", "bottom_level"}
ZDimSets == {{"nav_lev", "x", "y"}, {"z", "x", "y"}}
InferFileSet ==
    {NoDataset,
     File({}, {"deptht", "x", "y"}),
     File({"so"}, {"time_counter", "deptht", "x", "y"}),
     File({"so"}, {"z_t", "x", "y"})}
ZFileSet ==
    {File(vs, ds) @@ [infer |-> f] :
        vs \in SUBSET ZVars, ds \in ZDimSets, f \in InferFileSet}
    \cup {NoDataset @@ [infer |-> NoDataset]}
VertDims == {"nav_lev", "z_t"}
InferVals == {"None", "0.0"}

InitZLoad ==
    /\ point = FPoints[1]
    /\ kcall = NoCall
    /\ made = <<>>
    /\ calls = {}
    /\ hgrid = <<>>
    /\ gcall = NoCall
    /\ widths = "unit"
    /\ dataset \in ZFileSet
    /\ zgriddata = <<>>
    /\ lcall = NoCall

Call_load_zgriddata ==
    /\ lcall = NoCall
    /\ \E vert_dim \in VertDims, open_mf \in BOOLEAN, infer_tmask2d \in BOOLEAN,
          infer_tmask3d \in BOOLEAN, infer_val \in InferVals,
          calc_deptht \in BOOLEAN :
         lcall' = [fn |-> "load_zgriddata", vert_dim |-> vert_dim,
                   open_mf |-> open_mf, infer_tmask2d |-> infer_tmask2d,
                   infer_tmask3d |-> infer_tmask3d, infer_val |-> infer_val,
                   calc_deptht |-> calc_deptht]
                  @@ load_zgriddata(dataset, vert_dim, open_mf, infer_tmask2d,
                                    infer_tmask3d, infer_val, calc_deptht)
    /\ UNCHANGED <<point, kcall, made, calls, hgrid, gcall, widths, dataset, zgriddata>>

NextZLoad == Call_load_zgriddata

SpecZLoad == InitZLoad /\ [][NextZLoad]_vars

\* ---------------------------------------------------------------------
\* surf.py: load_tsdata
\* ---------------------------------------------------------------------
\* the points of the fields of the file and of tmask3d
NumPoints == 2
PointSet == 1..NumPoints

\* the field a variable of the file holds
FileField(varname) ==
    [p \in PointSet |-> Int2F(IF varname = "to" THEN p ELSE 30 + p)]

\* DataArray.where(cond, other): the value where cond is True, other
\* where it is not
where(arr, cond, other) ==
    [p \in DOMAIN arr |-> IF cond[p] THEN arr[p] ELSE other]

\* the lookup that stores the field as it is in the file
TryMask_unmasked(st, key, varname, named, zg) ==
    IF st.out.kind = "error" THEN st
    ELSE IF varname \in st.ds.vars /\ "tmask3d" \in DOMAIN zg
    THEN [st EXCEPT !.out.data = @ @@ (key :> FileField(varname))]
    ELSE [st EXCEPT !.prints = Append(@, NotFound(named))]

\* try: tsdata[key] = dataset[varname].where(zgriddata["tmask3d"], np.nan)
\* except: print("Variable {} not found in: {}".format(named, path))
TryMask(st, key, varname, named, zg) ==
    IF st.out.kind = "error" THEN st
    ELSE IF varname \in st.ds.vars /\ "tmask3d" \in DOMAIN zg
    THEN [st EXCEPT !.out.data =
              @ @@ (key :> where(FileField(varname), zg["tmask3d"], NaN))]
    ELSE [st EXCEPT !.prints = Append(@, NotFound(named))]

\* load_tsdata with the default variable names and the default names of
\* the i and j dimensions; both prints name to_varname
load_tsdata(ds, zg, vert_dim, open_mf) ==
    LET s0 == rename(rename(rename(open_dataset(ds, open_mf),
                                   vert_dim, "z_t"), "x", "x"), "y", "y")
        s2 == TryMask(TryMask(s0, "to", "to", "to", zg), "so", "so", "to", zg)
    IN  Left(s2.out, s2.prints)

TVars == {"to", "so"}
TDimSets == {{"time_counter", "deptht", "x", "y"}, {"time_counter", "z_t", "x", "y"}}
TFileSet == {File(vs, ds) : vs \in SUBSET TVars, ds \in TDimSets} \cup {NoDataset}
TVertDims == {"deptht", "z_t"}
\* the dictionaries load_tsdata may be given: with a tmask3d or without
ZgridSet ==
    {("tmask3d" :> mask) : mask \in [PointSet -> BOOLEAN]} \cup {EmptyDict}

InitTLoad ==
    /\ point = FPoints[1]
    /\ kcall = NoCall
    /\ made = <<>>
    /\ calls = {}
    /\ hgrid = <<>>
    /\ gcall = NoCall
    /\ widths = "unit"
    /\ dataset \in TFileSet
    /\ zgriddata \in ZgridSet
    /\ lcall = NoCall

Call_load_tsdata ==
    /\ lcall = NoCall
    /\ \E vert_dim \in TVertDims, open_mf \in BOOLEAN :
         lcall' = [fn |-> "load_tsdata", vert_dim |-> vert_dim, open_mf |-> open_mf]
                  @@ load_tsdata(dataset, zgriddata, vert_dim, open_mf)
    /\ UNCHANGED <<point, kcall, made, calls, hgrid, gcall, widths, dataset, zgriddata>>

NextTLoad == Call_load_tsdata

SpecTLoad == InitTLoad /\ [][NextTLoad]_vars

\* ---------------------------------------------------------------------
\* properties of the kernels (SpecKernel)
\* ---------------------------------------------------------------------
\* the step and the relative tolerance of the finite-difference test:
\* 1e-4 and 1e-6
FdStep == Dec(FALSE, 0, 1, 0, 0, 0)
RelTol == Dec(FALSE, 0, 0, 100, 0, 0)

\* is d the slope whose central difference over 2h is fd ?
SlopeIs(fd, d, h) ==
    LET run == (h ++ h) ** d
    IN  Leq(Abs(fd -- run), RelTol ** Abs(run))

DensityDiffS(n, h) ==
    calc_eos(point.S ++ h, point.T, point.Z, n).val
    -- calc_eos(point.S -- h, point.T, point.Z, n).val

DensityDiffT(n, h) ==
    calc_eos(point.S, point.T ++ h, point.Z, n).val
    -- calc_eos(point.S, point.T -- h, point.Z, n).val

InDomain(n) == Lt(Zero, point.S ++ EosCoef[n].rdeltaS)

\* C1: for teos10 and eos80 and S + rdeltaS > 0, calc_eos_s_t returns
\* (d rho/dS, d rho/dT) of calc_eos: each element agrees in sign and value
\* with the central finite difference of calc_eos along S and along T.
C1_PartialsOfDensity ==
    (kcall.fn = "calc_eos_s_t" /\ kcall.eos_name \in EosNames
       /\ InDomain(kcall.eos_name))
    => /\ kcall.out.kind = "value"
       /\ SlopeIs(DensityDiffS(kcall.eos_name, FdStep), kcall.out.beta, FdStep)
       /\ SlopeIs(DensityDiffT(kcall.eos_name, FdStep), kcall.out.alpha, FdStep)

\* C2: for every point and coefficients, calc_seos_s_t returns exactly the
\* central differences of calc_seos along S and along T, for any step h.
C2_SeosPartialsExact ==
    kcall.fn = "calc_seos_s_t"
    => \A h \in HSet :
         LET p == kcall.coef
             twoh == h ++ h
         IN  /\ calc_seos(point.S ++ h, point.T, point.Z, p)
                  -- calc_seos(point.S -- h, point.T, point.Z, p)
                = twoh ** kcall.out.beta
             /\ calc_seos(point.S, point.T ++ h, point.Z, p)
                  -- calc_seos(point.S, point.T -- h, point.Z, p)
                = twoh ** kcall.out.alpha

\* a call away from the reference state, with the default coefficients
C2_Witness ==
    /\ kcall.fn = "calc_seos_s_t"
    /\ kcall.coef = DefaultCoef
    /\ point.S # Int2F(35) /\ point.T # Int2F(10) /\ point.Z # Zero

\* C3: calc_seos at S = 35, T = 10 returns exactly 1026.0, with the
\* default coefficients at Z = 0 and for every Z and every override.
C3_SeosReferenceDensity ==
    (kcall.fn = "calc_seos" /\ point.S = Int2F(35) /\ point.T = Int2F(10))
    => kcall.out = Value(Int2F(1026))

C3_Witness ==
    /\ kcall.fn = "calc_seos"
    /\ point = [S |-> Int2F(35), T |-> Int2F(10), Z |-> Zero]
    /\ kcall.coef = DefaultCoef
    /\ kcall.out = Value(Int2F(1026))

\* C4: calc_eos and calc_eos_s_t called with an unsupported variant name
\* signal UnsupportedVariant and never return None.
C4_UnknownVariantSignals ==
    (kcall.fn \in {"calc_eos", "calc_eos_s_t"} /\ kcall.eos_name \notin EosNames)
    => kcall.out.kind = "UnsupportedVariant"

\* the salinity of the pole of each variant
PoleS(n) == IF n = "teos10" THEN Int2F(-32) ELSE Int2F(-20)

C5_FactoryUnknownVariantSignals ==
    \A i \in 1..Len(made) :
        made[i].args.eos_name \notin {"teos10", "eos80", "seos"}
        => made[i].ret = "UnsupportedVariant"

\* C7: the output of a call depends only on the variant and parameters
\* the pair was made with and on (S, T, Z): two calls of the same function
\* that agree on them return the same output, whatever happened between.
C7_Stateless ==
    \A c1 \in calls, c2 \in calls :
        (c1.fn = c2.fn /\ c1.at = c2.at
           /\ made[c1.pair].args = made[c2.pair].args)
        => c1.out = c2.out

\* the same function called at the same point on two pairs made with the
\* same arguments
C7_Witness ==
    \E c1 \in calls, c2 \in calls :
        /\ c1.pair # c2.pair /\ c1.fn = c2.fn /\ c1.at = c2.at
        /\ made[c1.pair].args = made[c2.pair].args
        /\ made[c1.pair].args.eos_name = "seos"

\* the values of the kernels at the points the closures are called at
calc_seos_at ==
    [p \in {DefaultCoef, LinearCoef}, q \in FAll |->
        Value(calc_seos(q.S, q.T, q.Z, p))]
calc_seos_s_t_at ==
    [p \in {DefaultCoef, LinearCoef}, q \in FAll |->
        LET r == calc_seos_s_t(q.S, q.T, q.Z, p) IN Pair(r[1], r[2])]
calc_eos_at == [n \in EosNames, q \in FAll |-> calc_eos(q.S, q.T, q.Z, n)]
calc_eos_s_t_at ==
    [n \in EosNames, q \in FAll |-> calc_eos_s_t(q.S, q.T, q.Z, n, TRUE)]

\* C8: for seos the pair evaluates calc_seos and calc_seos_s_t with the
\* seven coefficients given to NEMO_eos; for teos10 and eos80 the outputs
\* are those of calc_eos and calc_eos_s_t for the variant, the same for
\* every value of the overrides.
C8_OverridesOnlyForSeos ==
    /\ \A c \in calls :
         LET a == made[c.pair].args
         IN  c.out =
               IF a.eos_name = "seos"
               THEN IF c.fn = "eos"
                    THEN calc_seos_at[a.coef, c.at]
                    ELSE calc_seos_s_t_at[a.coef, c.at]
               ELSE IF c.fn = "eos"
                    THEN calc_eos_at[a.eos_name, c.at]
                    ELSE calc_eos_s_t_at[a.eos_name, c.at]
    /\ \A c1 \in calls, c2 \in calls :
         (c1.fn = c2.fn /\ c1.at = c2.at
            /\ made[c1.pair].args.eos_name = made[c2.pair].args.eos_name
            /\ made[c1.pair].args.eos_name \in EosNames)
         => c1.out = c2.out

\* a seos pair and a teos10 pair, both made with overrides that are not
\* the defaults, have been called
C8_Witness ==
    \E c1 \in calls, c2 \in calls :
        /\ c1.fn = c2.fn /\ c1.at = c2.at
        /\ made[c1.pair].args = [eos_name |-> "seos", coef |-> LinearCoef]
        /\ made[c2.pair].args = [eos_name |-> "teos10", coef |-> LinearCoef]

\* ---------------------------------------------------------------------
\* properties of the grid builders (SpecGrid)
\* ---------------------------------------------------------------------
HasWidths == Keys \subseteq DOMAIN hgrid
Unsupported ==
    /\ gcall.fn = "build_nemo_hgrid"
    /\ lower(gcall.gridtype) \notin {"rectilinear", "orca"}
ShapesDiffer == HasWidths /\ \E k1 \in Keys, k2 \in Keys : hgrid[k1] # hgrid[k2]

\* C9: build_nemo_hgrid called with a selector that is neither rectilinear
\* nor orca raises an error and returns no grid, whatever the four width
\* arrays are; the error is ValueError once e1u has the two dimensions the
\* shape is read from.
C9_UnknownGridtypeRaises ==
    (Unsupported /\ HasWidths)
    => /\ gcall.out.kind = "error"
       /\ Len(hgrid["e1u"]) >= 2 => gcall.out.error = "ValueError"

\* an unsupported selector met arrays of differing shapes and ValueError
\* was raised
C9_Witness ==
    /\ Unsupported /\ ShapesDiffer
    /\ gcall.gridtype = "curvilinear"
    /\ gcall.out = Raise("ValueError")

\* C10: when the four width arrays do not all have the same shape, the
\* builder signals an error and produces no graph.
C10_MismatchedShapesRaise ==
    (gcall # NoCall /\ ShapesDiffer) => gcall.out.kind = "error"

\* C11: when hgriddata lacks one of the keys e1u, e1v, e2u, e2v, the
\* builder fails with the typed MissingField signal and not with the
\* KeyError of the dictionary lookup.
C11_MissingKeySignalsMissingField ==
    (gcall # NoCall /\ ~HasWidths) => gcall.out = Raise("MissingField")

\* ---------------------------------------------------------------------
\* properties of the graph of the rectilinear builder (SpecGraph)
\* ---------------------------------------------------------------------
\* (ny, nx): the last two dimensions of e1u
GridNy == hgrid["e1u"][Len(hgrid["e1u"]) - 1]
GridNx == hgrid["e1u"][Len(hgrid["e1u"])]

\* a call returned the graph of the rectilinear builder
Rectilinear ==
    /\ gcall # NoCall
    /\ gcall.out.kind = "grid"
    /\ gcall.out.builder = "rectilinear"
NumEdges == Len(gcall.out.edges[1])
EdgeA(k) == gcall.out.edges[1][k]
EdgeB(k) == gcall.out.edges[2][k]
Row(n) == n \div GridNx
Col(n) == n % GridNx
NonPeriodicCount == (GridNy - 1) * GridNx + GridNy * (GridNx - 1)

\* the nodes m and n are one step apart in exactly one direction
OneStep(m, n) ==
    \/ Row(m) = Row(n) /\ (Col(m) = Col(n) + 1 \/ Col(n) = Col(m) + 1)
    \/ Col(m) = Col(n) /\ (Row(m) = Row(n) + 1 \/ Row(n) = Row(m) + 1)
\* m and n are the first and the last column of one row
WrapI(m, n) == Row(m) = Row(n) /\ {Col(m), Col(n)} = {0, GridNx - 1}
\* m and n are the first and the last row of one column
WrapJ(m, n) == Col(m) = Col(n) /\ {Row(m), Row(n)} = {0, GridNy - 1}
\* the number of edges that join m and n
EdgeCount(m, n) ==
    Cardinality({k \in 1..NumEdges : {EdgeA(k), EdgeB(k)} = {m, n}})

\* C12: with iperio and jperio both False the rectilinear builder returns
\* exactly (ny-1)*nx + ny*(nx-1) edges on an (ny, nx) grid, and when every
\* width is 1 every edge has dist = distperp = 1.
C12_NonPeriodicEdges ==
    (Rectilinear /\ ~gcall.iperio /\ ~gcall.jperio)
    => /\ Len(gcall.out.edges[1]) = NonPeriodicCount
       /\ Len(gcall.out.edges[2]) = NonPeriodicCount
       /\ widths = "unit"
          => /\ gcall.out.dist = [k \in 1..NonPeriodicCount |-> 1]
             /\ gcall.out.distperp = [k \in 1..NonPeriodicCount |-> 1]

\* the 3x3 grid of unit widths, not periodic, came back with 12 edges
C12_Witness ==
    /\ Rectilinear /\ ~gcall.iperio /\ ~gcall.jperio
    /\ hgrid["e1u"] = <<3, 3>> /\ widths = "unit"
    /\ NumEdges = 12

\* C13: with iperio True and jperio False the rectilinear builder returns
\* the edges of the non-periodic graph and ny more, one for each row,
\* joining the first and the last column of the row: every pair of nodes
\* is joined once if the two are one step apart, once more if they are the
\* first and last column of a row, and by nothing else.
C13_IPeriodicWrapEdges ==
    (Rectilinear /\ gcall.iperio /\ ~gcall.jperio)
    => /\ NumEdges = NonPeriodicCount + GridNy
       /\ Len(gcall.out.edges[2]) = NumEdges
       /\ \A m \in 0..(GridNy * GridNx - 1), n \in 0..(GridNy * GridNx - 1) :
            m <= n =>
              EdgeCount(m, n) = (IF OneStep(m, n) THEN 1 ELSE 0)
                                + (IF WrapI(m, n) THEN 1 ELSE 0)

\* the 2x3 grid, periodic in i only, came back with 7 + 2 edges, one of
\* them joining nodes 3 and 5
C13_Witness ==
    /\ Rectilinear /\ gcall.iperio /\ ~gcall.jperio
    /\ hgrid["e1u"] = <<2, 3>>
    /\ NumEdges = 9
    /\ EdgeCount(3, 5) = 1

\* the array a varied width was read from, and the node it was read at
ArrayOf(v) == v \div 1000
NodeOf(v) == ((v % 1000) \div 10) * GridNx + (v % 10)
\* edge k joins neighbours in the i direction (along a row), in the j
\* direction (along a column)
AlongI(k) == Row(EdgeA(k)) = Row(EdgeB(k)) /\ Col(EdgeA(k)) # Col(EdgeB(k))
AlongJ(k) == Col(EdgeA(k)) = Col(EdgeB(k)) /\ Row(EdgeA(k)) # Row(EdgeB(k))
\* the face width of edge k: e2u between i neighbours, e1v between j
\* neighbours, read at one of the two nodes
FaceWidth(k) ==
    /\ AlongI(k) => ArrayOf(gcall.out.distperp[k]) = ArrayNo("e2u")
    /\ AlongJ(k) => ArrayOf(gcall.out.distperp[k]) = ArrayNo("e1v")
    /\ NodeOf(gcall.out.distperp[k]) \in {EdgeA(k), EdgeB(k)}

C15_NoSelfLoop ==
    Rectilinear => \A k \in 1..NumEdges : EdgeA(k) # EdgeB(k)

\* C16: in the graph of the rectilinear builder every edge joins two
\* columns one step apart in exactly one of the directions i and j, except
\* for edges joining the first and the last column of a row, which exist
\* only when iperio is set, and edges joining the first and the last row
\* of a column, which exist only when jperio is set.
C16_WrapOnlyWherePeriodic ==
    Rectilinear
    => \A k \in 1..NumEdges :
         \/ OneStep(EdgeA(k), EdgeB(k))
         \/ gcall.iperio /\ WrapI(EdgeA(k), EdgeB(k))
         \/ gcall.jperio /\ WrapJ(EdgeA(k), EdgeB(k))

\* the 3x3 grid periodic in i only came back with an edge across each row
\* and none across a column
C16_Witness ==
    /\ Rectilinear /\ gcall.iperio /\ ~gcall.jperio
    /\ hgrid["e1u"] = <<3, 3>>
    /\ \E k \in 1..NumEdges :
         WrapI(EdgeA(k), EdgeB(k)) /\ ~OneStep(EdgeA(k), EdgeB(k))
    /\ \A k \in 1..NumEdges : ~WrapJ(EdgeA(k), EdgeB(k))

\* ---------------------------------------------------------------------
\* properties of the grid builders (SpecGrid), continued
\* ---------------------------------------------------------------------
\* C17: whenever a builder returns a graph, the two edge sequences, dist
\* and distperp have one length and every node index in edges lies in
\* 0 .. ny*nx - 1, (ny, nx) being the last two dimensions of e1u.
C17_GraphWellFormed ==
    (gcall # NoCall /\ gcall.out.kind = "grid")
    => /\ Len(gcall.out.edges) = 2
       /\ Len(gcall.out.edges[2]) = NumEdges
       /\ Len(gcall.out.dist) = NumEdges
       /\ Len(gcall.out.distperp) = NumEdges
       /\ \A k \in 1..NumEdges :
            /\ EdgeA(k) \in 0..(GridNy * GridNx - 1)
            /\ EdgeB(k) \in 0..(GridNy * GridNx - 1)

\* a graph with an edge reaching the last node of the 2x3 grid came back
C17_Witness ==
    /\ gcall # NoCall /\ gcall.out.kind = "grid"
    /\ hgrid["e1u"] = <<2, 3>>
    /\ \E k \in 1..NumEdges : EdgeA(k) = 5

\* ---------------------------------------------------------------------
\* properties of the loaders (SpecHLoad, SpecZLoad, SpecTLoad)
\* ---------------------------------------------------------------------
\* the file was opened and its dimensions renamed
Renamed(old, new) ==
    old = new \/ (old \in dataset.dims /\ new \notin dataset.dims \cup dataset.vars)
\* the number of times the loader printed that varname was not found
Warnings(varname) ==
    Cardinality({n \in 1..Len(lcall.prints) : lcall.prints[n] = NotFound(varname)})

\* C18: load_hgriddata raises nothing because a width variable is absent:
\* once the file is open and its dimensions are renamed, whatever subset
\* of e1u, e2u, e1v, e2v the file holds, a dictionary is returned whose
\* keys are exactly the variables found, and one warning was printed for
\* each variable not found.
C18_MissingWidthsWarned ==
    (lcall # NoCall /\ dataset.exists
       /\ Renamed(lcall.i_dim, "x") /\ Renamed(lcall.j_dim, "y"))
    => /\ lcall.out.kind = "dict"
       /\ DOMAIN lcall.out.data = Keys \cap dataset.vars
       /\ \A key \in Keys :
            Warnings(key) = IF key \in dataset.vars THEN 0 ELSE 1

\* a file holding e1u and e2v only was loaded: two keys, two warnings
C18_Witness ==
    /\ lcall # NoCall /\ lcall.fn = "load_hgriddata"
    /\ dataset.exists /\ dataset.vars = {"e1u", "e2v"}
    /\ lcall.out.kind = "dict"
    /\ DOMAIN lcall.out.data = {"e1u", "e2v"}
    /\ Warnings("e1v") = 1 /\ Warnings("e2u") = 1

\* load_zgriddata got past opening and renaming
ZOpened ==
    /\ lcall # NoCall /\ lcall.fn = "load_zgriddata"
    /\ dataset.exists
    /\ Renamed(lcall.vert_dim, "z_t")
    /\ lcall.infer_tmask3d
       => /\ dataset.infer.exists
          /\ "deptht" \in dataset.infer.dims
          /\ "z_t" \notin dataset.infer.dims \cup dataset.infer.vars
\* the variable a key of zgriddata is made from, and whether it is there
ZVarOf(key) ==
    CASE key = "deptht" -> IF lcall.calc_deptht THEN "e3w_0" ELSE "gdept_0"
      [] key = "tmask3d" -> IF lcall.infer_tmask3d THEN "so" ELSE "tmask"
      [] key = "tmask2d" -> IF lcall.infer_tmask2d THEN "bottom_level" ELSE "tmaskutil"
ZFound(key) ==
    IF key = "tmask3d" /\ lcall.infer_tmask3d
    THEN "so" \in dataset.infer.vars
    ELSE ZVarOf(key) \in dataset.vars

\* C19: load_zgriddata raises nothing because a variable it needs is
\* absent: for every setting of calc_deptht, infer_tmask2d and
\* infer_tmask3d, once the files are open and the dimensions renamed, a
\* dictionary is returned that holds the key of every variable found and
\* lacks the key of every variable not found, for which a warning was
\* printed.
C19_MissingVariablesWarned ==
    ZOpened
    => /\ lcall.out.kind = "dict"
       /\ \A key \in {"deptht", "tmask3d", "tmask2d"} :
            /\ key \in DOMAIN lcall.out.data <=> ZFound(key)
            /\ ~ZFound(key) => Warnings(ZVarOf(key)) = 1

\* load_tsdata got past opening and renaming and returned tsdata
TLoaded ==
    /\ lcall # NoCall /\ lcall.fn = "load_tsdata"
    /\ lcall.out.kind = "dict"

\* C20: in the tsdata load_tsdata returns, the temperature and the
\* salinity field are not-a-number at every point where tmask3d is False
\* and the value read from the file at every point where it is True, and
\* both keys to and so are there whenever the file holds both variables.
C20_MaskedWithNaN ==
    TLoaded
    => /\ \A key \in DOMAIN lcall.out.data : \A p \in PointSet :
            lcall.out.data[key][p] =
                IF zgriddata["tmask3d"][p] THEN FileField(key)[p] ELSE NaN
       /\ TVars \subseteq dataset.vars => TVars \subseteq DOMAIN lcall.out.data

\* C20 as the code has it: in the tsdata load_tsdata returns when
\* zgriddata holds tmask3d, the temperature and the salinity field are
\* not-a-number at every point where tmask3d is False and the value read
\* from the file at every point where it is True, and both keys to and so
\* are there whenever the file holds both variables.
C20_MaskedWithNaNGivenMask ==
    (TLoaded /\ "tmask3d" \in DOMAIN zgriddata)
    => /\ \A key \in DOMAIN lcall.out.data : \A p \in PointSet :
            lcall.out.data[key][p] =
                IF zgriddata["tmask3d"][p] THEN FileField(key)[p] ELSE NaN
       /\ TVars \subseteq dataset.vars => TVars \subseteq DOMAIN lcall.out.data

\* both fields came back, masked at the second point and kept at the first
C20_Witness ==
    /\ TLoaded /\ "tmask3d" \in DOMAIN zgriddata
    /\ zgriddata["tmask3d"] = <<TRUE, FALSE>>
    /\ DOMAIN lcall.out.data = TVars
    /\ lcall.out.data["to"] = <<Int2F(1), NaN>>
    /\ lcall.out.data["so"] = <<Int2F(31), NaN>>

\* a call of build_nemo_hgrid for the tripolar grid returned a graph
Tripolar ==
    /\ gcall # NoCall /\ gcall.fn = "build_nemo_hgrid"
    /\ lower(gcall.gridtype) = "orca"
    /\ gcall.out.kind = "grid"

\* C23: for the tripolar (orca) builder the graph does not depend on the
\* periodicity arguments: with the width arrays fixed, what
\* build_nemo_hgrid can return is the same for every value of iperio and
\* jperio, edges, dist and distperp included.
C23_TripolarIgnoresPeriodicity ==
    Tripolar
    => \A iperio \in BOOLEAN, jperio \in BOOLEAN :
          /\ build_nemo_hgrid(hgrid, iperio, jperio, gcall.gridtype)
                = build_nemo_hgrid(hgrid, gcall.iperio, gcall.jperio, gcall.gridtype)
          /\ \E g \in build_nemo_hgrid(hgrid, iperio, jperio, gcall.gridtype) :
                /\ g.edges = gcall.out.edges
                /\ g.dist = gcall.out.dist
                /\ g.distperp = gcall.out.distperp

\* an orca call with both flags set, on widths that differ from point to
\* point, returned a graph with edges
C23_Witness ==
    /\ Tripolar
    /\ gcall.iperio /\ gcall.jperio
    /\ widths = "varied"
    /\ Len(gcall.out.edges[1]) > 0
    /\ gcall.out \in build_nemo_hgrid(hgrid, FALSE, FALSE, gcall.gridtype)

\* ---------------------------------------------------------------------
\* surf.py: find_omega_surfs.  The fields, the grid and the routines of
\* the neutral-surface library are not interpreted: a routine's result is
\* the term of its call, so two results are equal exactly when the calls
\* had the same arguments.
\* ---------------------------------------------------------------------
NumPins == 3
MaxPins == 2
NumIter == 2

\* a depth handed in by the caller ("zpins: List of floats"); float() of
\* it is the depth itself
Given(z) == [given |-> z]
Pins ==
    << [zpin |-> Given(50), ipin |-> 0, jpin |-> 1, tpin |-> 0],
       [zpin |-> Given(200), ipin |-> 1, jpin |-> 0, tpin |-> 1],
       [zpin |-> Given(50), ipin |-> 1, jpin |-> 1, tpin |-> 2],
       [zpin |-> Given(200), ipin |-> 0, jpin |-> 0, tpin |-> 0],
       [zpin |-> Given(120), ipin |-> 0, jpin |-> 0, tpin |-> 1] >>
PinPool == {Pins[k] : k \in 1..NumPins}
PinLists == UNION {[1..m -> PinPool] : m \in 0..MaxPins}

\* a python argument that is None, one integer or a list of integers
IntArg(v) == [kind |-> "int", val |-> v]
ListArg(items) == [kind |-> "list", items |-> items]
VerIpins(m) == {None, IntArg(4), ListArg([k \in 1..m |-> 2 + (k % 2)])}
VerJpins(m) == {None, IntArg(7), ListArg([k \in 1..m |-> 5 + (k % 2)])}
EosTypes == {"specvol", "insitu", "SPECVOL"}
IterMaxSet == 0..(NumIter - 1)

\* tsdata[name].to_numpy()[tpin, :, j, i], tsdata[name][tpin, :, :, :] and
\* zgriddata["deptht"], masked or not, at one column or whole
Cast(name, tpin, j, i) == [field |-> name, t |-> tpin, j |-> j, i |-> i]
Slab(name, tpin) == [field |-> name, t |-> tpin]
DepthCast(j, i) == [field |-> "deptht", masked |-> TRUE, j |-> j, i |-> i]
Deptht == [field |-> "deptht", masked |-> FALSE]

\* the three routines of the library, by their calls
veronis_density(S, T, P, p0, eos_arg, p_ref) ==
    [fn |-> "veronis_density", S |-> S, T |-> T, P |-> P, p0 |-> p0,
     eos |-> eos_arg, p_ref |-> p_ref]
potential_surf(S, T, Z, ref, pin_cast, pin_p, eos_arg) ==
    [fn |-> "potential_surf", S |-> S, T |-> T, Z |-> Z, ref |-> ref,
     pin_cast |-> pin_cast, pin_p |-> pin_p, eos |-> eos_arg]
omega_surf(S, T, Z, ref, pin_cast, pin_p, eos_arg, iter_max) ==
    [fn |-> "omega_surf", S |-> S, T |-> T, Z |-> Z, ref |-> ref,
     pin_cast |-> pin_cast, pin_p |-> pin_p, eos |-> eos_arg,
     ITER_MAX |-> iter_max]
Part(call, name) == [of |-> call, part |-> name]
Recip(x) == [one_over |-> x]

\* a local name of the running call: unbound, or bound to a value by the
\* iteration `at` of the pin loop
Unbound == [unbound |-> TRUE]
Bound(v, n) == [val |-> v, at |-> n]
IsBound(x) == "val" \in DOMAIN x
ValOf(x) == IF IsBound(x) THEN x.val ELSE Unbound

Frame0 ==
    [rho_ver |-> Unbound, rho_pot |-> Unbound, ver_ipin |-> Unbound,
     ver_jpin |-> Unbound, final_set |-> <<>>, called |-> <<>>,
     reads |-> <<>>, error |-> None]

\* reading a local name in iteration n; an unbound name ends the call
Use(fr, name, n) ==
    [fr EXCEPT !.reads = Append(@, [name |-> name, n |-> n, var |-> fr[name]]),
               !.error = IF @ = None /\ ~IsBound(fr[name])
                         THEN "UnboundLocalError" ELSE @]

\* one DataArray set of a pin: three named surfaces, expanded along dim
\* at one label, with the coordinates assigned on that dim
SurfSet(dim, label, names, call, coords, attrs) ==
    [dim |-> dim, label |-> label,
     vars |-> [v \in names |-> Part(call, v)],
     coords |-> coords, attrs |-> attrs]
PotNames == {"potsurf_z", "potsurf_s", "potsurf_t"}
OmNames == {"omsurf_z", "omsurf_s", "omsurf_t"}
NoCoords == [c \in {} |-> 0]

\* ver_ipins / ver_jpins: the pin's own index, the n-th element, or the
\* one integer
ver_pin(ver_pins, pin, n) ==
    IF ver_pins = None THEN pin
    ELSE IF ver_pins.kind = "list" THEN ver_pins.items[n + 1]
    ELSE ver_pins.val

shared_attrs(a) ==
    [ipin |-> a.ipins, jpin |-> a.jpins, pot_ref |-> a.pot_ref]
    @@ (IF a.calc_veronis
        THEN [ver_ipins |-> IF a.ver_ipins = None THEN a.ipins ELSE a.ver_ipins,
              ver_jpins |-> IF a.ver_jpins = None THEN a.jpins ELSE a.ver_jpins]
        ELSE NoCoords)

veronis_call(a, pin, ver_jpin, ver_ipin) ==
    veronis_density(Cast("so", pin.tpin, ver_jpin, ver_ipin),
                    Cast("to", pin.tpin, ver_jpin, ver_ipin),
                    DepthCast(ver_jpin, ver_ipin),
                    pin.zpin, a.eos, a.ver_ref)

veronis_stage_stale(a, pin, n, fr) ==
    IF a.calc_veronis /\ n = 0
    THEN LET ver_ipin == ver_pin(a.ver_ipins, pin.ipin, n)
             ver_jpin == ver_pin(a.ver_jpins, pin.jpin, n)
             raw == veronis_call(a, pin, ver_jpin, ver_ipin)
         IN  [fr EXCEPT
                !.ver_ipin = Bound(ver_ipin, n),
                !.ver_jpin = Bound(ver_jpin, n),
                !.called = Append(@, raw),
                !.rho_ver = Bound(IF a.eos_type = "specvol"
                                  THEN Recip(raw) ELSE raw, n)]
    ELSE fr

veronis_stage_coupled(a, pin, n, fr) ==
    IF a.calc_veronis
    THEN LET ver_ipin == ver_pin(a.ver_ipins, pin.ipin, n)
             ver_jpin == IF a.ver_ipins = None THEN pin.jpin
                         ELSE ver_pin(a.ver_jpins, pin.jpin, n)
             raw == veronis_call(a, pin, ver_jpin, ver_ipin)
         IN  [fr EXCEPT
                !.ver_ipin = Bound(ver_ipin, n),
                !.ver_jpin = Bound(ver_jpin, n),
                !.called = Append(@, raw),
                !.rho_ver = Bound(IF a.eos_type = "specvol"
                                  THEN Recip(raw) ELSE raw, n)]
    ELSE fr

\* lines 272-296
veronis_stage(a, pin, n, fr) ==
    IF a.calc_veronis
    THEN LET ver_ipin == ver_pin(a.ver_ipins, pin.ipin, n)
             ver_jpin == ver_pin(a.ver_jpins, pin.jpin, n)
             raw == veronis_call(a, pin, ver_jpin, ver_ipin)
         IN  [fr EXCEPT
                !.ver_ipin = Bound(ver_ipin, n),
                !.ver_jpin = Bound(ver_jpin, n),
                !.called = Append(@, raw),
                !.rho_ver = Bound(IF a.eos_type = "specvol"
                                  THEN Recip(raw) ELSE raw, n)]
    ELSE fr

potential_call(a, pin) ==
    potential_surf(Slab("so", pin.tpin), Slab("to", pin.tpin), Deptht,
                   a.pot_ref, <<pin.jpin, pin.ipin>>, pin.zpin, a.eos)

potsurf_stage_plain(a, pin, n, fr) ==
    IF a.calc_potsurf
    THEN LET d == potential_call(a, pin)
             fr1 == [fr EXCEPT
                       !.called = Append(@, d),
                       !.rho_pot = Bound(Part(d, "isoval"), n)]
             fr2 == Use(fr1, "rho_pot", n)
             fr3 == IF a.calc_veronis THEN Use(fr2, "rho_ver", n) ELSE fr2
             potsurf_set ==
                 SurfSet("rho_pot", ValOf(fr1.rho_pot), PotNames, d,
                         IF a.calc_veronis
                         THEN [rho_ver |-> ValOf(fr1.rho_ver)]
                         ELSE NoCoords,
                         shared_attrs(a))
         IN  [fr3 EXCEPT !.final_set = Append(@, potsurf_set)]
    ELSE fr

\* lines 299-331
potsurf_stage(a, pin, n, fr) ==
    IF a.calc_potsurf
    THEN LET d == potential_call(a, pin)
             fr1 == [fr EXCEPT
                       !.called = Append(@, d),
                       !.rho_pot = Bound(IF a.eos_type = "specvol"
                                         THEN Recip(Part(d, "isoval"))
                                         ELSE Part(d, "isoval"), n)]
             fr2 == Use(fr1, "rho_pot", n)
             fr3 == IF a.calc_veronis THEN Use(fr2, "rho_ver", n) ELSE fr2
             potsurf_set ==
                 SurfSet("rho_pot", ValOf(fr1.rho_pot), PotNames, d,
                         IF a.calc_veronis
                         THEN [rho_ver |-> ValOf(fr1.rho_ver)]
                         ELSE NoCoords,
                         shared_attrs(a))
         IN  [fr3 EXCEPT !.final_set = Append(@, potsurf_set)]
    ELSE fr

omega_call(a, pin) ==
    omega_surf(Slab("so", pin.tpin), Slab("to", pin.tpin), Deptht,
               a.pot_ref, <<pin.jpin, pin.ipin>>, pin.zpin, a.eos,
               a.ITER_MAX)

\* lines 333-371
omsurf_stage(a, pin, n, fr) ==
    IF a.ITER_MAX >= 1
    THEN LET d == omega_call(a, pin)
             fr1 == [fr EXCEPT !.called = Append(@, d)]
             fr2 == IF a.calc_potsurf THEN Use(fr1, "rho_pot", n)
                    ELSE fr1
             fr3 == IF a.calc_veronis THEN Use(fr2, "rho_ver", n)
                    ELSE fr2
             omsurf_set ==
                 IF a.calc_potsurf
                 THEN SurfSet("rho_pot", ValOf(fr.rho_pot), OmNames, d,
                              [surfno |-> n]
                              @@ (IF a.calc_veronis
                                  THEN [rho_ver |-> ValOf(fr.rho_ver)]
                                  ELSE NoCoords),
                              shared_attrs(a))
                 ELSE IF a.calc_veronis
                 THEN SurfSet("rho_ver", ValOf(fr.rho_ver), OmNames, d,
                              [surfno |-> n], shared_attrs(a))
                 ELSE SurfSet("surfno", n, OmNames, d, NoCoords,
                              shared_attrs(a))
         IN  [fr3 EXCEPT !.final_set = Append(@, omsurf_set)]
    ELSE fr

\* zip(zpins, ipins, jpins, tpins, range(len(zpins))) stops at the
\* shortest list
Least(S) == CHOOSE x \in S : \A y \in S : x <= y
zip_len(a) == Least({Len(a.zpins), Len(a.ipins), Len(a.jpins), Len(a.tpins)})
zip_at(a, n) ==
    [zpin |-> a.zpins[n + 1], ipin |-> a.ipins[n + 1],
     jpin |-> a.jpins[n + 1], tpin |-> a.tpins[n + 1]]

pin_body(a, n, fr) ==
    omsurf_stage(a, zip_at(a, n), n,
        potsurf_stage(a, zip_at(a, n), n,
            veronis_stage(a, zip_at(a, n), n, fr)))

RECURSIVE pin_loop(_, _, _)
pin_loop(a, n, fr) ==
    IF n >= zip_len(a) \/ fr.error # None THEN fr
    ELSE pin_loop(a, n + 1, pin_body(a, n, fr))

\* xr.merge(final_set): outer join on the labels of the dimension, the
\* sets that carry one label are combined into one entry, and two
\* different values of one variable or coordinate at one label are a
\* MergeError
SetsAt(fs, dim, label) ==
    {k \in 1..Len(fs) : fs[k].dim = dim /\ fs[k].label = label}
Conflicts(fs, K) ==
    \E k1 \in K, k2 \in K :
        \/ \E v \in DOMAIN fs[k1].vars \cap DOMAIN fs[k2].vars :
              fs[k1].vars[v] # fs[k2].vars[v]
        \/ \E c \in DOMAIN fs[k1].coords \cap DOMAIN fs[k2].coords :
              fs[k1].coords[c] # fs[k2].coords[c]
Combined(fs, K) ==
    [dim |-> fs[Least(K)].dim, label |-> fs[Least(K)].label,
     vars |-> [v \in UNION {DOMAIN fs[k].vars : k \in K} |->
                 fs[Least({k \in K : v \in DOMAIN fs[k].vars})].vars[v]],
     coords |-> [c \in UNION {DOMAIN fs[k].coords : k \in K} |->
                 fs[Least({k \in K : c \in DOMAIN fs[k].coords})].coords[c]]]
Dataset(dims, rows) == [kind |-> "dataset", dims |-> dims, rows |-> rows]
merge(fs) ==
    IF \E k \in 1..Len(fs) : Conflicts(fs, SetsAt(fs, fs[k].dim, fs[k].label))
    THEN Raise("MergeError")
    ELSE Dataset({fs[k].dim : k \in 1..Len(fs)},
                 {Combined(fs, SetsAt(fs, fs[k].dim, fs[k].label)) :
                     k \in 1..Len(fs)})

\* the locals at the end of the pin loop, and what the call returns
find_omega_surfs_locals(a) == pin_loop(a, 0, Frame0)
find_omega_surfs(a) ==
    IF find_omega_surfs_locals(a).error # None
    THEN Raise(find_omega_surfs_locals(a).error)
    ELSE merge(find_omega_surfs_locals(a).final_set)

\* the arguments of a call built from a list of pins
SurfArgs(pins, eos_type, iter_max, calc_veronis, calc_potsurf, vi, vj) ==
    [zpins |-> [k \in 1..Len(pins) |-> pins[k].zpin],
     ipins |-> [k \in 1..Len(pins) |-> pins[k].ipin],
     jpins |-> [k \in 1..Len(pins) |-> pins[k].jpin],
     tpins |-> [k \in 1..Len(pins) |-> pins[k].tpin],
     eos |-> "gsw", eos_type |-> eos_type, ITER_MAX |-> iter_max,
     calc_veronis |-> calc_veronis, calc_potsurf |-> calc_potsurf,
     ver_ipins |-> vi, ver_jpins |-> vj, ver_ref |-> 0, pot_ref |-> 0]

InitSurf ==
    /\ point = FPoints[1]
    /\ kcall = NoCall
    /\ made = <<>>
    /\ calls = {}
    /\ hgrid = <<>>
    /\ gcall = NoCall
    /\ widths = "unit"
    /\ NoLoader

Call_find_omega_surfs ==
    /\ lcall = NoCall
    /\ \E pins \in PinLists, eos_type \in EosTypes, iter_max \in IterMaxSet,
          calc_veronis \in BOOLEAN, calc_potsurf \in BOOLEAN :
         \E vi \in VerIpins(Len(pins)), vj \in VerJpins(Len(pins)) :
            lcall' = [fn |-> "find_omega_surfs",
                      args |-> SurfArgs(pins, eos_type, iter_max,
                                        calc_veronis, calc_potsurf, vi, vj),
                      locals |-> find_omega_surfs_locals(
                                    SurfArgs(pins, eos_type, iter_max,
                                        calc_veronis, calc_potsurf, vi, vj)),
                      out |-> find_omega_surfs(
                                    SurfArgs(pins, eos_type, iter_max,
                                        calc_veronis, calc_potsurf, vi, vj))]
    /\ UNCHANGED <<point, kcall, made, calls, hgrid, gcall, widths, dataset, zgriddata>>

NextSurf == Call_find_omega_surfs

SpecSurf == InitSurf /\ [][NextSurf]_vars

\* ---------------------------------------------------------------------
\* surf.py: find_evolving_omega_surfs
\* ---------------------------------------------------------------------
NumTimes == 3

\* Dataset.swap_dims({old: new}): the coordinate new becomes the index,
\* the old index stays as a coordinate unless it was dropped
NoIndex == [noindex |-> TRUE]
swap_row(row, old, new) ==
    [dim |-> new, label |-> row.coords[new], vars |-> row.vars,
     coords |-> [c \in (DOMAIN row.coords \ {new})
                       \cup (IF row.label = NoIndex THEN {} ELSE {old}) |->
                   IF c = old THEN row.label ELSE row.coords[c]]]
swap_dims(ds, old, new) ==
    Dataset((ds.dims \ {old}) \cup {new},
            {swap_row(row, old, new) : row \in ds.rows})
\* Dataset.drop_vars([name]) of an index coordinate
drop_vars(ds, name) ==
    Dataset(ds.dims,
            {IF row.dim = name THEN [row EXCEPT !.label = NoIndex]
             ELSE [row EXCEPT !.coords =
                     [c \in DOMAIN row.coords \ {name} |-> row.coords[c]]] :
                row \in ds.rows})

\* np.arange(first, stop, step) for step 1 and -1
arange(first, stop, step) ==
    IF step = 1
    THEN [k \in 1..(IF stop > first THEN stop - first ELSE 0) |-> first + k - 1]
    ELSE [k \in 1..(IF first > stop THEN first - stop ELSE 0) |-> first - k + 1]
\* a column of a field at the chosen times
TimeCast(name, j, i, times) == [field |-> name, j |-> j, i |-> i, times |-> times]
\* the library's neutral_trajectory: one S, T and P entry per cast
neutral_trajectory(S, T, P, p0) ==
    [part \in 1..3 |->
        [k \in 1..Len(S.times) |->
            [traj |-> [fn |-> "neutral_trajectory", S |-> S, T |-> T,
                       P |-> P, p0 |-> p0],
             part |-> part, k |-> k]]]
reversed(seq) == [k \in 1..Len(seq) |-> seq[Len(seq) + 1 - k]]
rest(seq) == [k \in 1..(Len(seq) - 1) |-> seq[k + 1]]

n_after(a, n) ==
    neutral_trajectory(
        TimeCast("so", a.jpins[n + 1], a.ipins[n + 1], arange(a.tpins[n + 1], a.nt, 1)),
        TimeCast("to", a.jpins[n + 1], a.ipins[n + 1], arange(a.tpins[n + 1], a.nt, 1)),
        DepthCast(a.jpins[n + 1], a.ipins[n + 1]), a.zpins[n + 1])
n_before(a, n) ==
    neutral_trajectory(
        TimeCast("so", a.jpins[n + 1], a.ipins[n + 1], arange(a.tpins[n + 1], -1, -1)),
        TimeCast("to", a.jpins[n + 1], a.ipins[n + 1], arange(a.tpins[n + 1], -1, -1)),
        DepthCast(a.jpins[n + 1], a.ipins[n + 1]), a.zpins[n + 1])

n_Z_row_twice(a, n) == reversed(n_before(a, n)[3]) \o n_after(a, n)[3]

\* line 425
n_Z_row(a, n) == reversed(n_before(a, n)[3]) \o rest(n_after(a, n)[3])
\* lines 398-427
n_Z(a) == [k \in 1..zip_len(a) |-> n_Z_row(a, k - 1)]

\* the arguments find_evolving_omega_surfs hands to find_omega_surfs
PinArgs(a) ==
    [zpins |-> a.zpins, ipins |-> a.ipins, jpins |-> a.jpins,
     tpins |-> a.tpins, eos |-> "gsw", eos_type |-> "specvol",
     ITER_MAX |-> 10, calc_veronis |-> a.calc_veronis,
     calc_potsurf |-> a.calc_potsurf, ver_ipins |-> None,
     ver_jpins |-> None, ver_ref |-> 0, pot_ref |-> 0]
TimeArgs(a, it) ==
    [PinArgs(a) EXCEPT
        !.zpins = [k \in 1..Len(n_Z(a)) |-> n_Z(a)[k][it + 1]],
        !.tpins = [k \in 1..Len(n_Z(a)) |-> it],
        !.calc_veronis = FALSE]

\* lines 390-395
rho_dims(ds) == {d \in ds.dims : d \in {"rho_pot", "rho_ver"}}
surf_pin(a) ==
    IF find_omega_surfs(PinArgs(a)).kind = "error"
    THEN find_omega_surfs(PinArgs(a))
    ELSE IF a.calc_veronis \/ a.calc_potsurf
    THEN IF rho_dims(find_omega_surfs(PinArgs(a))) = {}
         THEN Raise("IndexError")
         ELSE swap_dims(find_omega_surfs(PinArgs(a)),
                        CHOOSE d \in rho_dims(find_omega_surfs(PinArgs(a))) : TRUE,
                        "surfno")
    ELSE find_omega_surfs(PinArgs(a))

\* the name tpin after the pin loop: the time pin of the last pin
last_tpin(a) ==
    IF zip_len(a) = 0 THEN Unbound ELSE Bound(a.tpins[zip_len(a)], zip_len(a) - 1)

\* lines 431-446: the dataset of time index it
surf_tmp(a, it) ==
    IF zip_len(a) = 0 \/ it >= a.nt THEN Raise("IndexError")
    ELSE IF it # last_tpin(a).val
    THEN IF find_omega_surfs(TimeArgs(a, it)).kind = "error"
         THEN find_omega_surfs(TimeArgs(a, it))
         ELSE IF a.calc_potsurf
         THEN swap_dims(drop_vars(find_omega_surfs(TimeArgs(a, it)), "rho_pot"),
                        "rho_pot", "surfno")
         ELSE find_omega_surfs(TimeArgs(a, it))
    ELSE surf_pin(a)

\* lines 429-451: the loop over the time indices, surf_out grows by one
\* slice along time_counter
RECURSIVE time_loop(_, _, _)
time_loop(a, it, surf_out) ==
    IF it > a.itmax THEN [kind |-> "value", surf_out |-> surf_out]
    ELSE IF surf_tmp(a, it).kind = "error" THEN surf_tmp(a, it)
    ELSE time_loop(a, it + 1,
                   Append(surf_out, [time_counter |-> it, data |-> surf_tmp(a, it)]))

find_evolving_omega_surfs(a) ==
    IF surf_pin(a).kind = "error" THEN surf_pin(a)
    ELSE IF a.itmin > a.itmax THEN Raise("UnboundLocalError")
    ELSE IF time_loop(a, a.itmin, <<>>).kind = "error"
    THEN time_loop(a, a.itmin, <<>>)
    ELSE [kind |-> "value", surf_out |-> time_loop(a, a.itmin, <<>>).surf_out,
          surf_pin |-> surf_pin(a)]

\* itmin and itmax: None stands for the first and the last time index
TimeArg(t, default) == IF t = None THEN default ELSE t.val
EvolvingArgs(pins, calc_veronis, calc_potsurf, itmin, itmax) ==
    [zpins |-> [k \in 1..Len(pins) |-> pins[k].zpin],
     ipins |-> [k \in 1..Len(pins) |-> pins[k].ipin],
     jpins |-> [k \in 1..Len(pins) |-> pins[k].jpin],
     tpins |-> [k \in 1..Len(pins) |-> pins[k].tpin],
     calc_veronis |-> calc_veronis, calc_potsurf |-> calc_potsurf,
     nt |-> NumTimes, itmin |-> TimeArg(itmin, 0),
     itmax |-> TimeArg(itmax, NumTimes - 1)]
TimeArgSet == {None} \cup {IntArg(t) : t \in 0..(NumTimes - 1)}

Call_find_evolving_omega_surfs ==
    /\ lcall = NoCall
    /\ \E pins \in PinLists, calc_veronis \in BOOLEAN, calc_potsurf \in BOOLEAN,
          itmin \in TimeArgSet, itmax \in TimeArgSet :
         lcall' = [fn |-> "find_evolving_omega_surfs",
                   args |-> EvolvingArgs(pins, calc_veronis, calc_potsurf, itmin, itmax),
                   n_Z |-> IF surf_pin(EvolvingArgs(pins, calc_veronis, calc_potsurf, itmin, itmax)).kind = "error"
                           THEN <<>>
                           ELSE n_Z(EvolvingArgs(pins, calc_veronis, calc_potsurf, itmin, itmax)),
                   out |-> find_evolving_omega_surfs(
                             EvolvingArgs(pins, calc_veronis, calc_potsurf, itmin, itmax))]
    /\ UNCHANGED <<point, kcall, made, calls, hgrid, gcall, widths, dataset, zgriddata>>

NextEvolving == Call_find_evolving_omega_surfs

SpecEvolving == InitSurf /\ [][NextEvolving]_vars

\* ---------------------------------------------------------------------
\* Claims about find_omega_surfs
\* ---------------------------------------------------------------------
SurfCalled == lcall # NoCall /\ lcall.fn = "find_omega_surfs"
SurfReturned == SurfCalled /\ lcall.out.kind = "dataset"
NumSurfPins == Len(lcall.args.zpins)
OmegaCalls == {k \in 1..Len(lcall.locals.called) : lcall.locals.called[k].fn = "omega_surf"}

\* C21: a call of find_omega_surfs with ITER_MAX = 0 and calc_potsurf True
\* never calls the omega-surface solver, and it returns a dataset that
\* holds the three potential density surfaces potsurf_z, potsurf_s and
\* potsurf_t and nothing else, exactly once for each pin of the list.
C21_OnlyPotentialSurfacesOnePerPin ==
    (SurfCalled /\ lcall.args.ITER_MAX = 0 /\ lcall.args.calc_potsurf)
    => /\ OmegaCalls = {}
       /\ lcall.out.kind = "dataset"
       /\ \A row \in lcall.out.rows : DOMAIN row.vars = PotNames
       /\ Cardinality(lcall.out.rows) = NumSurfPins

\* the n-th call of the Veronis routine, in the order of the pin loop
IsVeronis(c) == c.fn = "veronis_density"
VeronisCalls == SelectSeq(lcall.locals.called, IsVeronis)
\* what the documentation of ver_ipins and ver_jpins says for surface n
VerIndex(ver_pins, own_pins, n) ==
    IF ver_pins = None THEN own_pins[n]
    ELSE IF ver_pins.kind = "list" THEN ver_pins.items[n]
    ELSE ver_pins.val
Column(c) == <<c.j, c.i>>

\* C22: with calc_veronis True the Veronis density of the n-th surface is
\* computed at the column (ver_jpin, ver_ipin), where ver_ipin is ipins[n],
\* ver_ipins[n] or ver_ipins as ver_ipins is None, a list or one integer,
\* and ver_jpin follows the same rule on jpins and ver_jpins, whatever
\* the kind of ver_ipins is.
C22_VeronisColumn ==
    (SurfCalled /\ lcall.args.calc_veronis)
    => /\ Len(VeronisCalls) = NumSurfPins
       /\ \A n \in 1..NumSurfPins :
            /\ Column(VeronisCalls[n].S) =
                 << VerIndex(lcall.args.ver_jpins, lcall.args.jpins, n),
                    VerIndex(lcall.args.ver_ipins, lcall.args.ipins, n) >>
            /\ Column(VeronisCalls[n].T) = Column(VeronisCalls[n].S)
            /\ Column(VeronisCalls[n].P) = Column(VeronisCalls[n].S)
            /\ VeronisCalls[n].S.t = lcall.args.tpins[n]

\* two pins, ver_ipins None and ver_jpins a list: the second density is
\* taken at the pin's own i and the second element of ver_jpins
C22_Witness ==
    /\ SurfCalled /\ lcall.args.calc_veronis
    /\ NumSurfPins = 2
    /\ lcall.args.ver_ipins = None
    /\ lcall.args.ver_jpins = ListArg(<<6, 5>>)
    /\ lcall.args.ipins = <<0, 1>>
    /\ Len(VeronisCalls) = 2
    /\ Column(VeronisCalls[2].S) = <<5, 1>>

\* the reads of the two labels, in the order they happened
Reads == {lcall.locals.reads[k] : k \in 1..Len(lcall.locals.reads)}
FlagOf(name) ==
    IF name = "rho_ver" THEN lcall.args.calc_veronis
    ELSE lcall.args.calc_potsurf

\* C26: whatever calc_veronis, calc_potsurf and ITER_MAX >= 0 are, every
\* read of rho_ver or rho_pot in an iteration of the pin loop finds the
\* value that the same iteration computed: rho_ver is read only when
\* calc_veronis is True and rho_pot only when calc_potsurf is True, and
\* the call never ends on an unbound name.
C26_LabelsReadAfterComputed ==
    SurfCalled
    => /\ lcall.locals.error = None
       /\ \A r \in Reads :
            /\ IsBound(r.var)
            /\ r.var.at = r.n
            /\ FlagOf(r.name)

\* three pins' worth of reads is not needed: with two pins, both labels
\* and the omega surface asked for, the second iteration reads both
C26_Witness ==
    /\ SurfCalled /\ NumSurfPins = 2
    /\ lcall.args.calc_veronis /\ lcall.args.calc_potsurf
    /\ lcall.args.ITER_MAX >= 1
    /\ \E r \in Reads : r.name = "rho_ver" /\ r.n = 1 /\ r.var.at = 1
    /\ \E r \in Reads : r.name = "rho_pot" /\ r.n = 1 /\ r.var.at = 1

IsRecip(v) == "one_over" \in DOMAIN v
\* the results of the library's routines during the call
RawLabels ==
    {IF lcall.locals.called[k].fn = "veronis_density"
     THEN lcall.locals.called[k]
     ELSE Part(lcall.locals.called[k], "isoval") :
        k \in 1..Len(lcall.locals.called)}
SurfLabels ==
    {r.var.val : r \in Reads}
    \cup {ValOf(lcall.locals[name]) :
            name \in {x \in {"rho_ver", "rho_pot"} : IsBound(lcall.locals[x])}}

\* C27: every label rho_ver or rho_pot of a call is the reciprocal of what
\* the library's routine returned when eos_type is 'specvol', and is what
\* the routine returned for every other eos_type, so the two labels of a
\* call follow one convention.
C27_ReciprocalIffSpecvol ==
    SurfCalled
    => \A v \in SurfLabels :
          IF lcall.args.eos_type = "specvol"
          THEN IsRecip(v) /\ v.one_over \in RawLabels
          ELSE v \in RawLabels

\* a specvol call and another call, each with both labels
C27_Witness ==
    /\ SurfCalled
    /\ IsBound(lcall.locals.rho_ver) /\ IsBound(lcall.locals.rho_pot)
    /\ \/ /\ lcall.args.eos_type = "specvol"
          /\ IsRecip(lcall.locals.rho_ver.val)
          /\ IsRecip(lcall.locals.rho_pot.val)
       \/ /\ lcall.args.eos_type = "SPECVOL"
          /\ lcall.locals.rho_ver.val.fn = "veronis_density"
          /\ lcall.locals.rho_pot.val.part = "isoval"

\* ---------------------------------------------------------------------
\* Claims about find_evolving_omega_surfs
\* ---------------------------------------------------------------------
EvolvingCalled == lcall # NoCall /\ lcall.fn = "find_evolving_omega_surfs"
EvolvingReturned == EvolvingCalled /\ lcall.out.kind = "value"
\* the entry of surface n (counted from 0) in a dataset indexed by surfno
SurfaceOf(ds, n) == CHOOSE row \in ds.rows : row.label = n
HasSurface(ds, n) == \E row \in ds.rows : row.label = n
Slices == {lcall.out.surf_out[k] : k \in 1..Len(lcall.out.surf_out)}

\* C24: in what find_evolving_omega_surfs returns, surf_out has one slice
\* for every time index of itmin..itmax, and in the slice of time it the
\* surface n is the pinned surface of surf_pin exactly when it = tpins[n];
\* at every other time it is an omega surface computed from the fields of
\* time it and pinned at the depth n_Z[n, it] of the neutral trajectory.
C24_PinnedExactlyAtOwnTimePin ==
    EvolvingReturned
    => /\ {sl.time_counter : sl \in Slices} = lcall.args.itmin..lcall.args.itmax
       /\ \A sl \in Slices : \A n \in 1..NumSurfPins :
            /\ HasSurface(sl.data, n - 1)
            /\ IF sl.time_counter = lcall.args.tpins[n]
               THEN SurfaceOf(sl.data, n - 1) = SurfaceOf(lcall.out.surf_pin, n - 1)
               ELSE /\ SurfaceOf(sl.data, n - 1) # SurfaceOf(lcall.out.surf_pin, n - 1)
                    /\ SurfaceOf(sl.data, n - 1).vars["omsurf_z"].of.S.t = sl.time_counter
                    /\ SurfaceOf(sl.data, n - 1).vars["omsurf_z"].of.pin_p
                          = lcall.n_Z[n][sl.time_counter + 1]

\* the time index an entry of a neutral trajectory belongs to
TimeOf(e) == e.traj.S.times[e.k]
Backward(tpin) == [k \in 1..(tpin + 1) |-> tpin + 1 - k]
Forward(tpin, nt) == [k \in 1..(nt - tpin) |-> tpin + k - 1]

\* C25: for every pin with 0 <= tpin <= nt-1 the depth series of the pin
\* has nt entries, entry it belongs to time index it, the entries
\* 0..tpin are those of the backward trajectory and the entries
\* tpin+1..nt-1 those of the forward trajectory, so that the time tpin
\* appears exactly once.
C25_DepthSeriesInTimeOrder ==
    EvolvingCalled
    => \A n \in 1..Len(lcall.n_Z) :
         /\ Len(lcall.n_Z[n]) = lcall.args.nt
         /\ \A k \in 1..Len(lcall.n_Z[n]) :
              /\ TimeOf(lcall.n_Z[n][k]) = k - 1
              /\ lcall.n_Z[n][k].part = 3
              /\ lcall.n_Z[n][k].traj.p0 = lcall.args.zpins[n]
              /\ lcall.n_Z[n][k].traj.S.times =
                    IF k - 1 <= lcall.args.tpins[n]
                    THEN Backward(lcall.args.tpins[n])
                    ELSE Forward(lcall.args.tpins[n], lcall.args.nt)
         /\ Cardinality({k \in 1..Len(lcall.n_Z[n]) :
                TimeOf(lcall.n_Z[n][k]) = lcall.args.tpins[n]}) = 1

\* a pin in the middle of the time axis: one entry before it, one after
C25_Witness ==
    /\ EvolvingCalled
    /\ Len(lcall.n_Z) >= 1
    /\ lcall.args.tpins[1] = 1 /\ lcall.args.nt >= 3
    /\ Len(lcall.n_Z[1]) = lcall.args.nt
    /\ lcall.n_Z[1][1].traj.S.times = <<1, 0>> /\ lcall.n_Z[1][1].k = 2
    /\ lcall.n_Z[1][2].traj.S.times = <<1, 0>> /\ lcall.n_Z[1][2].k = 1
    /\ lcall.n_Z[1][3].traj.S.times[1] = 1 /\ lcall.n_Z[1][3].k = 2

\* ---------------------------------------------------------------------
\* eos.py: the polynomials of calc_eos and calc_eos_s_t at reduced
\* variables that are whole numbers, where every product and every sum of
\* the arithmetic above is exact
\* ---------------------------------------------------------------------
NumR == 3

\* the coefficients EOSijk, ALPijk and BETijk the two variants define,
\* each with the powers i of zs, j of zt and k of zh its name carries
EosTerms ==
    <<
       <<"EOS000", 0, 0, 0>>, <<"EOS100", 1, 0, 0>>, <<"EOS200", 2, 0, 0>>,
       <<"EOS300", 3, 0, 0>>, <<"EOS400", 4, 0, 0>>, <<"EOS500", 5, 0, 0>>,
       <<"EOS600", 6, 0, 0>>, <<"EOS010", 0, 1, 0>>, <<"EOS110", 1, 1, 0>>,
       <<"EOS210", 2, 1, 0>>, <<"EOS310", 3, 1, 0>>, <<"EOS410", 4, 1, 0>>,
       <<"EOS510", 5, 1, 0>>, <<"EOS020", 0, 2, 0>>, <<"EOS120", 1, 2, 0>>,
       <<"EOS220", 2, 2, 0>>, <<"EOS320", 3, 2, 0>>, <<"EOS420", 4, 2, 0>>,
       <<"EOS030", 0, 3, 0>>, <<"EOS130", 1, 3, 0>>, <<"EOS230", 2, 3, 0>>,
       <<"EOS330", 3, 3, 0>>, <<"EOS040", 0, 4, 0>>, <<"EOS140", 1, 4, 0>>,
       <<"EOS240", 2, 4, 0>>, <<"EOS050", 0, 5, 0>>, <<"EOS150", 1, 5, 0>>,
       <<"EOS060", 0, 6, 0>>, <<"EOS001", 0, 0, 1>>, <<"EOS101", 1, 0, 1>>,
       <<"EOS201", 2, 0, 1>>, <<"EOS301", 3, 0, 1>>, <<"EOS401", 4, 0, 1>>,
       <<"EOS011", 0, 1, 1>>, <<"EOS111", 1, 1, 1>>, <<"EOS211", 2, 1, 1>>,
       <<"EOS311", 3, 1, 1>>, <<"EOS021", 0, 2, 1>>, <<"EOS121", 1, 2, 1>>,
       <<"EOS221", 2, 2, 1>>, <<"EOS031", 0, 3, 1>>, <<"EOS131", 1, 3, 1>>,
       <<"EOS041", 0, 4, 1>>, <<"EOS002", 0, 0, 2>>, <<"EOS102", 1, 0, 2>>,
       <<"EOS202", 2, 0, 2>>, <<"EOS012", 0, 1, 2>>, <<"EOS112", 1, 1, 2>>,
       <<"EOS022", 0, 2, 2>>, <<"EOS003", 0, 0, 3>>, <<"EOS103", 1, 0, 3>>,
       <<"EOS013", 0, 1, 3>> >>
AlpTerms ==
    <<
       <<"ALP000", 0, 0, 0>>, <<"ALP100", 1, 0, 0>>, <<"ALP200", 2, 0, 0>>,
       <<"ALP300", 3, 0, 0>>, <<"ALP400", 4, 0, 0>>, <<"ALP500", 5, 0, 0>>,
       <<"ALP010", 0, 1, 0>>, <<"ALP110", 1, 1, 0>>, <<"ALP210", 2, 1, 0>>,
       <<"ALP310", 3, 1, 0>>, <<"ALP410", 4, 1, 0>>, <<"ALP020", 0, 2, 0>>,
       <<"ALP120", 1, 2, 0>>, <<"ALP220", 2, 2, 0>>, <<"ALP320", 3, 2, 0>>,
       <<"ALP030", 0, 3, 0>>, <<"ALP130", 1, 3, 0>>, <<"ALP230", 2, 3, 0>>,
       <<"ALP040", 0, 4, 0>>, <<"ALP140", 1, 4, 0>>, <<"ALP050", 0, 5, 0>>,
       <<"ALP001", 0, 0, 1>>, <<"ALP101", 1, 0, 1>>, <<"ALP201", 2, 0, 1>>,
       <<"ALP301", 3, 0, 1>>, <<"ALP011", 0, 1, 1>>, <<"ALP111", 1, 1, 1>>,
       <<"ALP211", 2, 1, 1>>, <<"ALP021", 0, 2, 1>>, <<"ALP121", 1, 2, 1>>,
       <<"ALP031", 0, 3, 1>>, <<"ALP002", 0, 0, 2>>, <<"ALP102", 1, 0, 2>>,
       <<"ALP012", 0, 1, 2>>, <<"ALP003", 0, 0, 3>> >>
BetTerms ==
    <<
       <<"BET000", 0, 0, 0>>, <<"BET100", 1, 0, 0>>, <<"BET200", 2, 0, 0>>,
       <<"BET300", 3, 0, 0>>, <<"BET400", 4, 0, 0>>, <<"BET500", 5, 0, 0>>,
       <<"BET010", 0, 1, 0>>, <<"BET110", 1, 1, 0>>, <<"BET210", 2, 1, 0>>,
       <<"BET310", 3, 1, 0>>, <<"BET410", 4, 1, 0>>, <<"BET020", 0, 2, 0>>,
       <<"BET120", 1, 2, 0>>, <<"BET220", 2, 2, 0>>, <<"BET320", 3, 2, 0>>,
       <<"BET030", 0, 3, 0>>, <<"BET130", 1, 3, 0>>, <<"BET230", 2, 3, 0>>,
       <<"BET040", 0, 4, 0>>, <<"BET140", 1, 4, 0>>, <<"BET050", 0, 5, 0>>,
       <<"BET001", 0, 0, 1>>, <<"BET101", 1, 0, 1>>, <<"BET201", 2, 0, 1>>,
       <<"BET301", 3, 0, 1>>, <<"BET011", 0, 1, 1>>, <<"BET111", 1, 1, 1>>,
       <<"BET211", 2, 1, 1>>, <<"BET021", 0, 2, 1>>, <<"BET121", 1, 2, 1>>,
       <<"BET031", 0, 3, 1>>, <<"BET002", 0, 0, 2>>, <<"BET102", 1, 0, 2>>,
       <<"BET012", 0, 1, 2>>, <<"BET003", 0, 0, 3>> >>

ReducedSet == [zs : {Int2F(n) : n \in 0..NumR},
               zt : {Int2F(n) : n \in (-1)..(NumR - 1)},
               zh : {Int2F(n) : n \in 0..(NumR - 1)}]

InitHorner ==
    /\ point \in ReducedSet
    /\ kcall = NoCall
    /\ made = <<>>
    /\ calls = {}
    /\ hgrid = <<>>
    /\ gcall = NoCall
    /\ widths = "unit"
    /\ NoLoader

\* calc_eos from line 303 on, for the reduced variables of the state
Call_calc_eos_rho ==
    /\ kcall = NoCall
    /\ \E n \in EosNames :
         kcall' = [fn |-> "calc_eos", eos_name |-> n,
                   out |-> Value(calc_eos_rho(EosCoef[n], point.zh, point.zt, point.zs))]
    /\ UNCHANGED <<point, made, calls, hgrid, gcall, widths, dataset, zgriddata, lcall>>

\* calc_eos_s_t from line 527 on, for the reduced variables of the state
Call_calc_eos_s_t_sums ==
    /\ kcall = NoCall
    /\ \E n \in EosNames, sc \in BOOLEAN :
         kcall' = [fn |-> "calc_eos_s_t", eos_name |-> n, scalar |-> sc,
                   out |-> calc_eos_s_t_sums(EosStCoef[n], point.zh, point.zt, point.zs, sc)]
    /\ UNCHANGED <<point, made, calls, hgrid, gcall, widths, dataset, zgriddata, lcall>>

NextHorner ==
    \/ Call_calc_eos_rho
    \/ Call_calc_eos_s_t_sums

SpecHorner == InitHorner /\ [][NextHorner]_vars

\* ---------------------------------------------------------------------
\* Claims about the polynomials
\* ---------------------------------------------------------------------
RECURSIVE Pow(_, _)
Pow(x, n) == IF n = 0 THEN One ELSE x ** Pow(x, n - 1)
Monomial(c, term, zs, zt, zh) ==
    ((c[term[1]] ** Pow(zs, term[2])) ** Pow(zt, term[3])) ** Pow(zh, term[4])
\* the sum of the monomials lo..hi of a table, halved until one is left
RECURSIVE PlainSum(_, _, _, _, _)
PlainSum(c, terms, lo, hi, at) ==
    IF lo = hi THEN Monomial(c, terms[lo], at.zs, at.zt, at.zh)
    ELSE PlainSum(c, terms, lo, (lo + hi) \div 2, at)
         ++ PlainSum(c, terms, (lo + hi) \div 2 + 1, hi, at)
SumOver(c, terms) == PlainSum(c, terms, 1, Len(terms), point)
TermNames(terms) == {terms[n][1] : n \in 1..Len(terms)}
ReductionNames == {"rdeltaS", "r1_S0", "r1_T0", "r1_Z0"}

\* C28: for teos10 and eos80 the nested evaluation of calc_eos is the
\* plain sum of EOSijk * zs^i * zt^j * zh^k over the whole table of the
\* variant, every coefficient taken once; in calc_eos_s_t alpha is the
\* same sum over the ALPijk and beta the sum over the BETijk divided by zs.
C28_HornerIsPlainSum ==
    /\ (kcall # NoCall /\ kcall.fn = "calc_eos")
       => /\ DOMAIN EosCoef[kcall.eos_name] \ ReductionNames = TermNames(EosTerms)
          /\ Cardinality(TermNames(EosTerms)) = Len(EosTerms)
          /\ kcall.out.val = SumOver(EosCoef[kcall.eos_name], EosTerms)
    /\ (kcall # NoCall /\ kcall.fn = "calc_eos_s_t")
       => /\ DOMAIN EosStCoef[kcall.eos_name] \ ReductionNames
                = TermNames(AlpTerms) \cup TermNames(BetTerms)
          /\ Cardinality(TermNames(AlpTerms) \cup TermNames(BetTerms))
                = Len(AlpTerms) + Len(BetTerms)
          /\ ~IsZero(point.zs)
             => /\ kcall.out.alpha = SumOver(EosStCoef[kcall.eos_name], AlpTerms)
                /\ kcall.out.beta = SumOver(EosStCoef[kcall.eos_name], BetTerms) // point.zs

\* both kernels at a point where every power of the three variables
\* differs from the variable itself
C28_Witness ==
    /\ kcall # NoCall
    /\ point = [zs |-> Int2F(3), zt |-> Int2F(2), zh |-> Int2F(2)]
    /\ \/ /\ kcall.fn = "calc_eos" /\ kcall.eos_name = "teos10"
          /\ kcall.out.val = SumOver(EosCoef_teos10, EosTerms)
       \/ /\ kcall.fn = "calc_eos_s_t" /\ kcall.eos_name = "eos80"
          /\ kcall.out.alpha = SumOver(EosStCoef_eos80, AlpTerms)

====
